---- MODULE Spec2Model ----
(***************************************************************************)
(* Stormwater engine of the HydroGrid / CivicScale application:            *)
(*   - IDF interpolation (interpolateIntensity, getIntensity)              *)
(*   - Rational Method and pipe sizing (DrainageCalculator, CostAnalysis)  *)
(*   - Green-Ampt storm simulation (runSimulation)                         *)
(*                                                                         *)
(* JavaScript numbers are modelled as decimal fixed-point integers.  A     *)
(* real x is held as the integer floor(x * ONE); every product and         *)
(* quotient of the source becomes one FMul or DivTo, which rounds down to  *)
(* the next fixed-point number the way a float operation rounds to the     *)
(* next double.  Rates of the simulator (mm/hr) are held at RateOne        *)
(* because the Green-Ampt capacity at F = 0.001 mm reaches 2*10^6 mm/hr.   *)
(***************************************************************************)
EXTENDS Integers, Sequences, FiniteSets, TLC

\* fixed-point scale of a real number (six decimals)
ONE == 10^6
\* fixed-point scale of a rate in mm/hr (three decimals)
RateOne == 10^3
\* fixed-point scale of a duration in hours (two decimals)
HourOne == 10^2

Min(a, b) == IF a <= b THEN a ELSE b
Max(a, b) == IF a >= b THEN a ELSE b

\* floor(x * y / ONE) for x, y >= 0: the product of two reals, formed from
\* three-digit limbs so that no intermediate exceeds 32 bits
FMul(x, y) ==
    LET x1 == x \div 1000
        x0 == x % 1000
        y1 == y \div 1000
        y0 == y % 1000
        m1 == x1 * y0
        m2 == x0 * y1
    IN  x1 * y1 + (m1 \div 1000) + (m2 \div 1000)
        + ((m1 % 1000) + (m2 % 1000) + ((x0 * y0) \div 1000)) \div 1000

\* long division: acc followed by the next k decimal digits of r / y, r < y
RECURSIVE DivDigits(_, _, _, _)
DivDigits(r, y, k, acc) ==
    IF k = 0 THEN acc
    ELSE DivDigits((10 * r) % y, y, k - 1, 10 * acc + ((10 * r) \div y))

\* floor(x * 10^k / y) for x >= 0, y > 0: the quotient x / y with k decimals
DivTo(x, y, k) == DivDigits(x % y, y, k, x \div y)

\* x / y of two reals
FDiv(x, y) == DivTo(x, y, 6)

\* x * y of two reals of either sign, rounded toward zero
SMul(x, y) ==
    LET ax == IF x >= 0 THEN x ELSE 0 - x
        ay == IF y >= 0 THEN y ELSE 0 - y
    IN  IF (x >= 0) = (y >= 0) THEN FMul(ax, ay) ELSE 0 - FMul(ax, ay)

\* ln 2
LN2 == 693147

\* floor(log2 n) for n >= 1
RECURSIVE Log2Floor(_)
Log2Floor(n) == IF n < 2 THEN 0 ELSE 1 + Log2Floor(n \div 2)

\* z + z^3/3 + z^5/5 + ... = atanh z, summed until the terms vanish
RECURSIVE AtanhSum(_, _, _, _)
AtanhSum(term, z2, k, acc) ==
    IF term = 0 THEN acc
    ELSE AtanhSum(FMul(term, z2), z2, k + 2, acc + (term \div k))

\* ln n for an integer n >= 1: n = m * 2^(e-25) with 2^25 <= m < 2^26, and
\* ln(m / 2^25) = 2 atanh((m - 2^25) / (m + 2^25))
LnInt(n) ==
    LET e == Log2Floor(n)
        m == IF e <= 25 THEN n * 2^(25 - e) ELSE n \div 2^(e - 25)
        z == DivTo(m - 2^25, m + 2^25, 6)
    IN  e * LN2 + 2 * AtanhSum(z, FMul(z, z), 1, 0)

LnOne == LnInt(ONE)

\* Math.log(x) for a real x > 0
Ln(x) == LnInt(x) - LnOne

\* 1 + r + r^2/2! + ... = e^r, summed until the terms vanish
RECURSIVE ExpSum(_, _, _, _)
ExpSum(term, r, i, acc) ==
    IF term = 0 THEN acc
    ELSE ExpSum(FMul(term, r) \div i, r, i + 1, acc + term)

\* Math.exp(y): y = k ln 2 + r with 0 <= r < ln 2, e^y = 2^k e^r
Exp(y) ==
    LET k == y \div LN2
        r == y - k * LN2
        m == ExpSum(ONE, r, 1, 0)
    IN  IF k >= 0 THEN m * 2^k
        ELSE IF k < 0 - 30 THEN 0
        ELSE m \div 2^(0 - k)

\* Math.pow(x, y) for x >= 0
Pow(x, y) == IF x = 0 THEN 0 ELSE Exp(SMul(y, Ln(x)))

\* Math.sqrt(x) for x >= 0 held at scale `one`; the result is at ONE
SqrtOf(x, one) == IF x = 0 THEN 0 ELSE Exp((LnInt(x) - LnInt(one)) \div 2)

\* Math.sqrt(x)
Sqrt(x) == SqrtOf(x, ONE)

\* Math.round(x)
Round(x) == (x + ONE \div 2) \div ONE

\* Scale of areas (m2): lot, building, pavement and lawn areas
AreaOne == 10^2

\* Scale of runoff volumes (m3)
VolOne == 10^4

\* Scale of the small products inside the Manning formulas (Q * n is of the
\* order 10^-4): three more digits than ONE.
FineOne == 10^9

\* x * y of two reals at ONE, kept at FineOne: floor(x * y / 10^3)
FMulFine(x, y) == x * (y \div 1000) + (x * (y % 1000)) \div 1000

\* Math.pow(x, y) for x >= 0 held at FineOne; the result is at ONE
LnFineOne == LnInt(FineOne)

PowFine(x, y) == IF x = 0 THEN 0 ELSE Exp(SMul(y, LnInt(x) - LnFineOne))

\* Number.prototype.toFixed(digits) read back with unary +, for x >= 0 held
\* at scale `one`: the nearest multiple of 10^-digits, ties upward.
ToFixed(x, digits, one) ==
    LET unit == one \div (10^digits)
    IN  ((x + unit \div 2) \div unit) * unit

VARIABLES
    \* --- runSimulation(totalDepth, duration_hr, soilKey, imperviousFrac) ---
    totalDepth,       \* mm, scale ONE
    duration_hr,      \* hours, scale HourOne
    soilKey,          \* key of GA_SOILS
    imperviousFrac,   \* fraction, scale ONE
    s,                \* loop counter
    cumF,             \* cumulative infiltrated depth F, mm, scale ONE
    ponded,           \* the ponded flag
    cumRain, cumInf, cumRunoff,   \* running totals, mm, scale ONE
    steps,            \* the SimStep[] built so far
    body,             \* the locals of the last loop iteration
    pc,               \* position of the model: "idle", "loop", "done"
    \* --- the IDF lookups of the three views ---
    idf,              \* last query: rp, dur (min, scale ONE) and the three answers
    \* --- pipe sizing of the two views ---
    pipe,             \* last sizing: Q (m3/s, scale ONE) and the diameters (mm)
    \* --- DrainageCalculator ---
    dc,               \* props, useState values and what the render computed
    \* --- CostAnalysisView ---
    ca,               \* selected property, returnPeriod and the calc memo
    \* --- StormSimulationView ---
    sv,               \* analysisData, useState values and the derived inputs
    kirpich,          \* a lot area and its time of concentration in the two views
    scs,              \* a time fraction and its SCS Type II cumulative fraction
    ld,               \* a loader: its requests, abortRef and the state it sets
    mh,               \* DrainageWaterView: manholes, manholesLoading and the manhole requests
    lay               \* useMapData: one layer, its requests, boundsRef and the debounce timer

simVars == <<totalDepth, duration_hr, soilKey, imperviousFrac, s, cumF, ponded,
             cumRain, cumInf, cumRunoff, steps, body, pc>>

vars == <<simVars, idf, pipe, dc, ca, sv, kirpich, scs, ld, mh, lay>>

(***************************************************************************)
(* IDF curves.  Durations are minutes, intensities mm/hr, both at ONE.     *)
(***************************************************************************)

\* ascending order of a finite set of numbers: Object.keys(t).map(Number).sort
RECURSIVE SortAsc(_)
SortAsc(S) ==
    IF S = {} THEN << >>
    ELSE LET m == CHOOSE x \in S : \A y \in S : x <= y
         IN  <<m>> \o SortAsc(S \ {m})

\* Math.exp(logI1 + frac * (logI2 - logI1)) with frac = (logT - logT1) / (logT2 - logT1)
LogLogInterp_Swapped(logT, logT1, logT2, logI1, logI2) ==
    Exp(logI2 + SMul(FDiv(logT - logT1, logT2 - logT1), logI1 - logI2))

LogLogInterp(logT, logT1, logT2, logI1, logI2) ==
    Exp(logI1 + SMul(FDiv(logT - logT1, logT2 - logT1), logI2 - logI1))

\* --- EngineeringView / DrainageCalculator ---

IDF_DURATIONS == << 5, 10, 15, 30, 60, 120, 360, 720, 1440 >>

IDF_RETURN_PERIODS == << 2, 5, 10, 25, 50, 100 >>

IDF_INTENSITIES ==
    2 :> << 65500000, 45400000, 36000000, 23700000, 15400000, 9910000, 4900000, 3130000, 2000000 >> @@
    5 :> << 98200000, 67700000, 53500000, 35100000, 22700000, 14500000, 7120000, 4530000, 2880000 >> @@
    10 :> << 119900000, 82600000, 65200000, 42700000, 27500000, 17600000, 8620000, 5480000, 3480000 >> @@
    25 :> << 147100000, 101100000, 79700000, 52100000, 33500000, 21400000, 10400000, 6620000, 4190000 >> @@
    50 :> << 167400000, 115000000, 90600000, 59200000, 38100000, 24300000, 11800000, 7490000, 4750000 >> @@
    100 :> << 187500000, 128700000, 101400000, 66200000, 42500000, 27100000, 13200000, 8350000, 5290000 >>

\* the for loop of interpolateIntensity, from index j on (1-based)
RECURSIVE InterpolateLoop(_, _, _)
InterpolateLoop(tc, intensities, j) ==
    IF j > Len(IDF_DURATIONS) - 1 THEN intensities[1]
    ELSE IF tc >= IDF_DURATIONS[j] * ONE /\ tc <= IDF_DURATIONS[j + 1] * ONE
         THEN LogLogInterp(Ln(tc), Ln(IDF_DURATIONS[j] * ONE),
                           Ln(IDF_DURATIONS[j + 1] * ONE),
                           Ln(intensities[j]), Ln(intensities[j + 1]))
         ELSE InterpolateLoop(tc, intensities, j + 1)

interpolateIntensity_DefaultRow(tc, returnPeriod) ==
    LET intensities == IF returnPeriod \in DOMAIN IDF_INTENSITIES
                       THEN IDF_INTENSITIES[returnPeriod]
                       ELSE IDF_INTENSITIES[IDF_RETURN_PERIODS[1]]
    IN  IF tc <= IDF_DURATIONS[1] * ONE THEN intensities[1]
        ELSE IF tc >= IDF_DURATIONS[Len(IDF_DURATIONS)] * ONE
             THEN intensities[Len(intensities)]
        ELSE InterpolateLoop(tc, intensities, 1)

interpolateIntensity_NoUpperClamp(tc, returnPeriod) ==
    IF returnPeriod \notin DOMAIN IDF_INTENSITIES THEN 0
    ELSE LET intensities == IDF_INTENSITIES[returnPeriod]
         IN  IF tc <= IDF_DURATIONS[1] * ONE THEN intensities[1]
             ELSE InterpolateLoop(tc, intensities, 1)

interpolateIntensity(tc, returnPeriod) ==
    IF returnPeriod \notin DOMAIN IDF_INTENSITIES THEN 0
    ELSE LET intensities == IDF_INTENSITIES[returnPeriod]
         IN  IF tc <= IDF_DURATIONS[1] * ONE THEN intensities[1]
             ELSE IF tc >= IDF_DURATIONS[Len(IDF_DURATIONS)] * ONE
                  THEN intensities[Len(intensities)]
             ELSE InterpolateLoop(tc, intensities, 1)

\* --- StormSimulationView ---

IDF ==
    2 :> (5 :> 82000000 @@ 10 :> 56000000 @@ 15 :> 45000000 @@ 30 :> 30000000 @@ 60 :> 18000000 @@ 120 :> 11000000 @@ 360 :> 5000000 @@ 720 :> 3000000 @@ 1440 :> 1700000) @@
    5 :> (5 :> 110000000 @@ 10 :> 76000000 @@ 15 :> 61000000 @@ 30 :> 41000000 @@ 60 :> 25000000 @@ 120 :> 15000000 @@ 360 :> 6800000 @@ 720 :> 4000000 @@ 1440 :> 2300000) @@
    10 :> (5 :> 128000000 @@ 10 :> 89000000 @@ 15 :> 72000000 @@ 30 :> 48000000 @@ 60 :> 29000000 @@ 120 :> 18000000 @@ 360 :> 8000000 @@ 720 :> 4700000 @@ 1440 :> 2700000) @@
    25 :> (5 :> 153000000 @@ 10 :> 107000000 @@ 15 :> 86000000 @@ 30 :> 58000000 @@ 60 :> 35000000 @@ 120 :> 21000000 @@ 360 :> 9600000 @@ 720 :> 5600000 @@ 1440 :> 3300000) @@
    50 :> (5 :> 172000000 @@ 10 :> 121000000 @@ 15 :> 97000000 @@ 30 :> 66000000 @@ 60 :> 40000000 @@ 120 :> 24000000 @@ 360 :> 11000000 @@ 720 :> 6400000 @@ 1440 :> 3700000) @@
    100 :> (5 :> 192000000 @@ 10 :> 135000000 @@ 15 :> 109000000 @@ 30 :> 74000000 @@ 60 :> 44000000 @@ 120 :> 27000000 @@ 360 :> 12000000 @@ 720 :> 7200000 @@ 1440 :> 4200000)

\* the for loop of getIntensity, from index j on (1-based)
RECURSIVE GetIntensityLoop(_, _, _, _)
GetIntensityLoop(table, ds, dur_min, j) ==
    IF j > Len(ds) - 1 THEN 0
    ELSE IF dur_min >= ds[j] * ONE /\ dur_min <= ds[j + 1] * ONE
         THEN LET f == FDiv(Ln(dur_min) - Ln(ds[j] * ONE),
                            Ln(ds[j + 1] * ONE) - Ln(ds[j] * ONE))
              IN  Exp(Ln(table[ds[j]])
                      + SMul(f, Ln(table[ds[j + 1]]) - Ln(table[ds[j]])))
         ELSE GetIntensityLoop(table, ds, dur_min, j + 1)

getIntensity(rp, dur_min) ==
    IF rp \notin DOMAIN IDF THEN 0
    ELSE LET table == IDF[rp]
             ds == SortAsc(DOMAIN table)
         IN  IF dur_min <= ds[1] * ONE THEN table[ds[1]]
             ELSE IF dur_min >= ds[Len(ds)] * ONE THEN table[ds[Len(ds)]]
             ELSE GetIntensityLoop(table, ds, dur_min, 1)

\* --- CostAnalysisView ---

CostIDF ==
    2 :> (5 :> 82000000 @@ 10 :> 56000000 @@ 15 :> 45000000 @@ 30 :> 30000000 @@ 60 :> 18000000 @@ 120 :> 11000000 @@ 360 :> 5000000 @@ 720 :> 3000000 @@ 1440 :> 1700000) @@
    5 :> (5 :> 110000000 @@ 10 :> 76000000 @@ 15 :> 61000000 @@ 30 :> 41000000 @@ 60 :> 25000000 @@ 120 :> 15000000 @@ 360 :> 6800000 @@ 720 :> 4000000 @@ 1440 :> 2300000) @@
    10 :> (5 :> 128000000 @@ 10 :> 89000000 @@ 15 :> 72000000 @@ 30 :> 48000000 @@ 60 :> 29000000 @@ 120 :> 18000000 @@ 360 :> 8000000 @@ 720 :> 4700000 @@ 1440 :> 2700000) @@
    25 :> (5 :> 153000000 @@ 10 :> 107000000 @@ 15 :> 86000000 @@ 30 :> 58000000 @@ 60 :> 35000000 @@ 120 :> 21000000 @@ 360 :> 9600000 @@ 720 :> 5600000 @@ 1440 :> 3300000) @@
    50 :> (5 :> 172000000 @@ 10 :> 121000000 @@ 15 :> 97000000 @@ 30 :> 66000000 @@ 60 :> 40000000 @@ 120 :> 24000000 @@ 360 :> 11000000 @@ 720 :> 6400000 @@ 1440 :> 3700000) @@
    100 :> (5 :> 192000000 @@ 10 :> 135000000 @@ 15 :> 109000000 @@ 30 :> 74000000 @@ 60 :> 44000000 @@ 120 :> 27000000 @@ 360 :> 12000000 @@ 720 :> 7200000 @@ 1440 :> 4200000)

\* the for loop of CostAnalysisView's getIntensity, from index j on (1-based)
RECURSIVE CostGetIntensityLoop(_, _, _, _)
CostGetIntensityLoop(t, ds, dur, j) ==
    IF j > Len(ds) - 1 THEN 0
    ELSE IF dur >= ds[j] * ONE /\ dur <= ds[j + 1] * ONE
         THEN LET f == FDiv(Ln(dur) - Ln(ds[j] * ONE),
                            Ln(ds[j + 1] * ONE) - Ln(ds[j] * ONE))
              IN  Exp(Ln(t[ds[j]]) + SMul(f, Ln(t[ds[j + 1]]) - Ln(t[ds[j]])))
         ELSE CostGetIntensityLoop(t, ds, dur, j + 1)

CostGetIntensity(rp, dur) ==
    IF rp \notin DOMAIN CostIDF THEN 0
    ELSE LET t == CostIDF[rp]
             ds == SortAsc(DOMAIN t)
         IN  IF dur <= ds[1] * ONE THEN t[ds[1]]
             ELSE IF dur >= ds[Len(ds)] * ONE THEN t[ds[Len(ds)]]
             ELSE CostGetIntensityLoop(t, ds, dur, 1)

\* no lookup made yet
IdfNone == [rp |-> 0, dur |-> 0, drain |-> 0, storm |-> 0, cost |-> 0]

(***************************************************************************)
(* Pipe sizing.  Discharges are m3/s and required diameters mm, at ONE;    *)
(* catalogue entries are whole millimetres.                                *)
(***************************************************************************)

\* Math.PI
PI == 3141592

\* the result of an arithmetic operation that has no value
NaN == 0 - 1

\* Math.sqrt(S) with S = 0.005, the slope of both Manning formulas
SqrtS == Sqrt(5000)

\* --- EngineeringView / DrainageCalculator ---

STANDARD_PIPES == << 75, 100, 125, 150, 200, 250, 300, 375, 450, 525, 600, 750, 900 >>

requiredPipeDiameter(Q) ==
    IF Q <= 0 THEN 0
    ELSE LET n == 13000
             D_m == PowFine(FDiv(FMul(FMulFine(Q, n), 10079000), FMul(PI, SqrtS)),
                            375000)
         IN  D_m * 1000

\* the for loop of roundUpPipe, from index j on (1-based)
RECURSIVE RoundUpLoop(_, _, _)
RoundUpLoop(d_mm, j, fallback) ==
    IF j > Len(STANDARD_PIPES) THEN fallback
    ELSE IF STANDARD_PIPES[j] * ONE >= d_mm THEN STANDARD_PIPES[j]
    ELSE RoundUpLoop(d_mm, j + 1, fallback)

\* the largest entry not above d_mm, from index j down
RECURSIVE RoundDownLoop(_, _)
RoundDownLoop(d_mm, j) ==
    IF j = 1 \/ STANDARD_PIPES[j] * ONE <= d_mm THEN STANDARD_PIPES[j]
    ELSE RoundDownLoop(d_mm, j - 1)

roundUpPipe_Down(d_mm) == RoundDownLoop(d_mm, Len(STANDARD_PIPES))

roundUpPipe_FallbackFirst(d_mm) == RoundUpLoop(d_mm, 1, STANDARD_PIPES[1])

roundUpPipe_AlwaysLargest(d_mm) == STANDARD_PIPES[Len(STANDARD_PIPES)]

roundUpPipe(d_mm) == RoundUpLoop(d_mm, 1, STANDARD_PIPES[Len(STANDARD_PIPES)])

\* --- CostAnalysisView ---

CostSTANDARD_PIPES == << 100, 150, 200, 250, 300, 375, 450, 525, 600, 750, 900, 1050, 1200 >>

\* Math.pow(4, 2/3)
Pow4 == Pow(4 * ONE, FDiv(2 * ONE, 3 * ONE))

\* Math.pow of a negative base to a fractional power is NaN
calcPipeDia(Q) ==
    IF Q < 0 THEN NaN
    ELSE LET n == 13000
             Ar == FDiv(FMulFine(Q, n), SqrtS)
             d == PowFine(FDiv(FMul(Ar, Pow4), PI), FDiv(3 * ONE, 8 * ONE)) * 2
         IN  d * 1000

\* STANDARD_PIPES.find(p => p >= d), from index j on; a comparison with NaN is false
RECURSIVE CostFind(_, _)
CostFind(d, j) ==
    IF j > Len(CostSTANDARD_PIPES) THEN NaN
    ELSE IF d # NaN /\ CostSTANDARD_PIPES[j] * ONE >= d THEN CostSTANDARD_PIPES[j]
    ELSE CostFind(d, j + 1)

CostRoundUpPipe(d) ==
    IF CostFind(d, 1) # NaN THEN CostFind(d, 1)
    ELSE CostSTANDARD_PIPES[Len(CostSTANDARD_PIPES)]

\* no pipe sized yet
PipeNone == [Q |-> 0, required |-> 0, selected |-> 0,
             costRequired |-> 0, costSelected |-> 0]

(***************************************************************************)
(* Rational Method: DrainageCalculator                                     *)
(***************************************************************************)

C_ROOF == 950000

C_PAVEMENT == 900000

C_LAWN == 250000

C_GREEN_ROOF == 400000

C_PERMEABLE_PAVE == 300000

\* useState<LIDState> initial value
NoLid == [greenRoof |-> FALSE, rainGarden |-> FALSE,
          permeablePavement |-> FALSE, bioswale |-> FALSE]

\* Math.pow(slope, -0.385) with slope = 0.02
SlopeFactor == Pow(20000, 0 - 385000)

\* Kirpich formula without the upper clamp
calculateTc_NoUpperClamp(lotArea) ==
    LET flowLength == FMul(SqrtOf(lotArea, AreaOne), 1400000)
        tc == FMul(FMul(19500, Pow(flowLength, 770000)), SlopeFactor)
    IN  Max(5 * ONE, tc)

\* Kirpich formula, minutes, clamped to [5, 30]
calculateTc(lotArea) ==
    LET flowLength == FMul(SqrtOf(lotArea, AreaOne), 1400000)
        tc == FMul(FMul(19500, Pow(flowLength, 770000)), SlopeFactor)
    IN  Max(5 * ONE, Min(tc, 30 * ONE))

\* roofC of compositeC
RoofC_GreenRoofIgnored(lid) == C_ROOF

RoofC(lid) ==
    IF lid.greenRoof THEN FMul(500000, C_GREEN_ROOF) + FMul(500000, C_ROOF)
    ELSE C_ROOF

\* paveC of compositeC
PaveC(lid) == IF lid.permeablePavement THEN C_PERMEABLE_PAVE ELSE C_PAVEMENT

\* C of compositeC before the final clamp
CompositeRaw(buildingArea, pavementArea, lawnArea, totalArea, lid) ==
    LET C == FDiv(FMul(RoofC(lid), buildingArea) + FMul(PaveC(lid), pavementArea)
                      + FMul(C_LAWN, lawnArea), totalArea)
    IN  IF lid.rainGarden THEN FMul(C, 850000) ELSE C

\* mutant: the rain-garden reduction is applied to the clamped value
compositeC_RainGardenAfterClamp(buildingArea, pavementArea, lawnArea, totalArea, lid) ==
    LET off == [lid EXCEPT !.rainGarden = FALSE]
        C == Max(100000, Min(CompositeRaw(buildingArea, pavementArea, lawnArea,
                                          totalArea, off), 950000))
    IN  IF lid.rainGarden THEN FMul(C, 850000) ELSE C

compositeC(buildingArea, pavementArea, lawnArea, totalArea, lid) ==
    Max(100000, Min(CompositeRaw(buildingArea, pavementArea, lawnArea, totalArea, lid),
                    950000))

ResultRow_PipeBeforeBioswale(rp, tc, baseC, lidC, area_ha, lid, lotSize) ==
    LET i == interpolateIntensity(tc, rp)
        Q_base == FMul(FMul(baseC, i), area_ha) \div 360
        Q_lid0 == FMul(FMul(lidC, i), area_ha) \div 360
        Q_lid == IF lid.bioswale THEN FMul(Q_lid0, 800000) ELSE Q_lid0
        depth_mm == FMul(i, tc \div 60)
        vol_base == DivTo(FMul(FMul(baseC, depth_mm), lotSize), 1000 * AreaOne, 4)
        vol_lid0 == DivTo(FMul(FMul(lidC, depth_mm), lotSize), 1000 * AreaOne, 4)
        vol_lid == IF lid.bioswale THEN FMul(vol_lid0, 800000) ELSE vol_lid0
    IN  [rp |-> rp, i |-> i, Q_base |-> Q_base, Q_lid |-> Q_lid,
         pipe_base |-> roundUpPipe(requiredPipeDiameter(Q_base)),
         pipe_lid |-> roundUpPipe(requiredPipeDiameter(Q_lid0)),
         vol_base |-> vol_base, vol_lid |-> vol_lid]

\* one element of results
ResultRow(rp, tc, baseC, lidC, area_ha, lid, lotSize) ==
    LET i == interpolateIntensity(tc, rp)
        Q_base == FMul(FMul(baseC, i), area_ha) \div 360
        Q_lid0 == FMul(FMul(lidC, i), area_ha) \div 360
        Q_lid == IF lid.bioswale THEN FMul(Q_lid0, 800000) ELSE Q_lid0
        depth_mm == FMul(i, tc \div 60)
        vol_base == DivTo(FMul(FMul(baseC, depth_mm), lotSize), 1000 * AreaOne, 4)
        vol_lid0 == DivTo(FMul(FMul(lidC, depth_mm), lotSize), 1000 * AreaOne, 4)
        vol_lid == IF lid.bioswale THEN FMul(vol_lid0, 800000) ELSE vol_lid0
    IN  [rp |-> rp, i |-> i, Q_base |-> Q_base, Q_lid |-> Q_lid,
         pipe_base |-> roundUpPipe(requiredPipeDiameter(Q_base)),
         pipe_lid |-> roundUpPipe(requiredPipeDiameter(Q_lid)),
         vol_base |-> vol_base, vol_lid |-> vol_lid]

\* mutant: the baseline C is computed with the LID options
DcRender_BaselineFromLid(lotSize, buildingArea, lid, pavementPct) ==
    IF lotSize <= 0 THEN [empty |-> TRUE]
    ELSE LET clampedBuilding == Min(buildingArea, FMul(lotSize, 850000))
             pavementArea == FMul(lotSize, DivTo(pavementPct, 100, 6))
             lawnArea == Max(0, lotSize - clampedBuilding - pavementArea)
             imperviousArea == clampedBuilding + pavementArea
             tc == calculateTc(lotSize)
             baseC == compositeC(clampedBuilding, pavementArea, lawnArea, lotSize, lid)
             lidC == compositeC(clampedBuilding, pavementArea, lawnArea, lotSize, lid)
             area_ha == DivTo(lotSize, 10000 * AreaOne, 6)
         IN  [empty |-> FALSE,
              clampedBuilding |-> clampedBuilding,
              pavementArea |-> pavementArea,
              lawnArea |-> lawnArea,
              imperviousRatio |-> FDiv(imperviousArea, lotSize),
              tc |-> tc, baseC |-> baseC, lidC |-> lidC,
              results |-> [j \in DOMAIN IDF_RETURN_PERIODS |->
                              ResultRow(IDF_RETURN_PERIODS[j], tc, baseC, lidC,
                                        area_ha, lid, lotSize)]]

\* what one render of the component computes
DcRender(lotSize, buildingArea, lid, pavementPct) ==
    IF lotSize <= 0 THEN [empty |-> TRUE]
    ELSE LET clampedBuilding == Min(buildingArea, FMul(lotSize, 850000))
             pavementArea == FMul(lotSize, DivTo(pavementPct, 100, 6))
             lawnArea == Max(0, lotSize - clampedBuilding - pavementArea)
             imperviousArea == clampedBuilding + pavementArea
             tc == calculateTc(lotSize)
             baseC == compositeC(clampedBuilding, pavementArea, lawnArea, lotSize, NoLid)
             lidC == compositeC(clampedBuilding, pavementArea, lawnArea, lotSize, lid)
             area_ha == DivTo(lotSize, 10000 * AreaOne, 6)
         IN  [empty |-> FALSE,
              clampedBuilding |-> clampedBuilding,
              pavementArea |-> pavementArea,
              lawnArea |-> lawnArea,
              imperviousRatio |-> FDiv(imperviousArea, lotSize),
              tc |-> tc, baseC |-> baseC, lidC |-> lidC,
              results |-> [j \in DOMAIN IDF_RETURN_PERIODS |->
                              ResultRow(IDF_RETURN_PERIODS[j], tc, baseC, lidC,
                                        area_ha, lid, lotSize)]]

\* the component is not mounted (no analysisData)
DcNone == [mounted |-> FALSE]

\* const defaultPave = zoningPaveFrac ? Math.round(zoningPaveFrac * 100) : 15
DefaultPave(zoningPaveFrac) ==
    IF zoningPaveFrac # 0 THEN Round(FMul(zoningPaveFrac, 100 * ONE)) ELSE 15

\* the component with the given props and state, rendered
DcView(lotSize, buildingArea, zoningPaveFrac, lid, pavementPct) ==
    [mounted |-> TRUE, lotSize |-> lotSize, buildingArea |-> buildingArea,
     zoningPaveFrac |-> zoningPaveFrac, lid |-> lid, pavementPct |-> pavementPct,
     out |-> DcRender(lotSize, buildingArea, lid, pavementPct)]

(***************************************************************************)
(* Rational Method and sizing: CostAnalysisView                            *)
(***************************************************************************)

\* Math.pow(0.005, 0.385)
CostSlopeFactor == Pow(5000, 385000)

\* tc_raw and tc of the calc memo
CostTc(lot) ==
    LET tc_raw == FDiv(FMul(19500, Pow(SqrtOf(lot, AreaOne), 770000)),
                       CostSlopeFactor)
    IN  Min(30 * ONE, Max(5 * ONE, tc_raw))

\* one lot area and its time of concentration in the engineering and cost views
TcQuery(lotArea) ==
    [lotArea |-> lotArea, tc |-> calculateTc(lotArea), costTc |-> CostTc(lotArea)]

\* no lot area queried
TcNone == [lotArea |-> 0, tc |-> 0, costTc |-> 0]

\* the calc memo
Calc(lot, bldg, paveFrac, returnPeriod) ==
    IF lot <= 0 THEN [null |-> TRUE]
    ELSE LET paveArea == FMul(lot, paveFrac)
             lawnArea == Max(0, lot - bldg - paveArea)
             C == FDiv(FMul(bldg, 950000) + FMul(paveArea, 900000)
                           + FMul(lawnArea, 300000), lot)
             tc == CostTc(lot)
             i == CostGetIntensity(returnPeriod, tc)
             Q == FMul(FMul(C, i), DivTo(lot, 10000 * AreaOne, 6)) \div 360
             d_mm == calcPipeDia(Q)
         IN  [null |-> FALSE, C |-> C, tc |-> tc, i |-> i, Q |-> Q,
              pipe_mm |-> CostRoundUpPipe(d_mm)]

\* the view with the given property and return period
CaView(lot, bldg, paveFrac, returnPeriod) ==
    [lot |-> lot, bldg |-> bldg, paveFrac |-> paveFrac, returnPeriod |-> returnPeriod,
     calc |-> Calc(lot, bldg, paveFrac, returnPeriod)]

\* no analysisData: lot = 0, bldg = 0, paveFrac = 0.15, useState(100)
CaNone == CaView(0, 0, 150000, 100)

(***************************************************************************)
(* Storm simulation: StormSimulationView.tsx                               *)
(***************************************************************************)

\* Green-Ampt soil parameters: Ks (mm/hr), psi (mm), theta_e, theta_i
GA_SOILS ==
    [ sand          |-> [Ks |-> 117800000, psi |-> 49500000,  theta_e |-> 437000, theta_i |-> 100000],
      loamySand     |-> [Ks |-> 29900000,  psi |-> 61300000,  theta_e |-> 437000, theta_i |-> 120000],
      sandyLoam     |-> [Ks |-> 10900000,  psi |-> 110100000, theta_e |-> 453000, theta_i |-> 150000],
      loam          |-> [Ks |-> 3400000,   psi |-> 88900000,  theta_e |-> 463000, theta_i |-> 200000],
      siltLoam      |-> [Ks |-> 6500000,   psi |-> 166800000, theta_e |-> 501000, theta_i |-> 220000],
      sandyClayLoam |-> [Ks |-> 1500000,   psi |-> 218500000, theta_e |-> 398000, theta_i |-> 200000],
      clayLoam      |-> [Ks |-> 1000000,   psi |-> 208800000, theta_e |-> 464000, theta_i |-> 250000],
      siltyClayLoam |-> [Ks |-> 1000000,   psi |-> 273000000, theta_e |-> 471000, theta_i |-> 250000],
      clay          |-> [Ks |-> 300000,    psi |-> 316300000, theta_e |-> 475000, theta_i |-> 300000] ]

SoilKey == DOMAIN GA_SOILS

\* SCS Type II distribution: <<time fraction, cumulative depth fraction>>
SCS_TYPE_II ==
    << <<0, 0>>, <<42000, 10000>>, <<83000, 22000>>, <<125000, 35000>>,
       <<167000, 48000>>, <<208000, 63000>>, <<250000, 80000>>, <<292000, 98000>>,
       <<333000, 120000>>, <<375000, 147000>>, <<417000, 181000>>, <<438000, 204000>>,
       <<458000, 235000>>, <<479000, 283000>>, <<489000, 357000>>, <<500000, 663000>>,
       <<521000, 735000>>, <<542000, 772000>>, <<563000, 799000>>, <<583000, 820000>>,
       <<625000, 850000>>, <<667000, 880000>>, <<708000, 916000>>, <<750000, 936000>>,
       <<833000, 952000>>, <<917000, 976000>>, <<ONE, ONE>> >>

\* mutant: no interpolation inside a segment, the lower anchor's value
RECURSIVE ScsLoop_Step(_, _)
ScsLoop_Step(tFrac, i) ==
    IF i > Len(SCS_TYPE_II) - 1 THEN ONE
    ELSE IF tFrac >= SCS_TYPE_II[i][1] /\ tFrac <= SCS_TYPE_II[i + 1][1]
         THEN SCS_TYPE_II[i][2]
         ELSE ScsLoop_Step(tFrac, i + 1)

\* the for loop of interpolateSCS, from index i on
RECURSIVE ScsLoop(_, _)
ScsLoop(tFrac, i) ==
    IF i > Len(SCS_TYPE_II) - 1 THEN ONE
    ELSE LET t1 == SCS_TYPE_II[i][1]
             p1 == SCS_TYPE_II[i][2]
             t2 == SCS_TYPE_II[i + 1][1]
             p2 == SCS_TYPE_II[i + 1][2]
         IN  IF tFrac >= t1 /\ tFrac <= t2
             THEN p1 + FMul(FDiv(tFrac - t1, t2 - t1), p2 - p1)
             ELSE ScsLoop(tFrac, i + 1)

\* mutant: beyond fraction 1 the last segment is extrapolated
interpolateSCS_Extrapolate(tFrac) ==
    IF tFrac <= 0 THEN 0
    ELSE IF tFrac >= ONE
         THEN 976000 + FMul(FDiv(tFrac - 917000, 83000), 24000)
    ELSE ScsLoop(tFrac, 1)

interpolateSCS(tFrac) ==
    IF tFrac <= 0 THEN 0
    ELSE IF tFrac >= ONE THEN ONE
    ELSE ScsLoop(tFrac, 1)

\* one time fraction and the cumulative rainfall fraction at it
ScsQuery(tFrac) == [tFrac |-> tFrac, p |-> interpolateSCS(tFrac)]

\* no fraction queried
ScsNone == [tFrac |-> 0, p |-> 0]

\* duration_min = duration_hr * 60, in minutes at scale HourOne
DurationMin(dh) == dh * 60

\* dt_min = duration_hr <= 1 ? 2 : duration_hr <= 6 ? 5 : 10
DtMin(dh) == IF dh <= 1 * HourOne THEN 2 ELSE IF dh <= 6 * HourOne THEN 5 ELSE 10

\* mutant: Math.floor for Math.ceil
NSteps_Floor(dh) == DurationMin(dh) \div (DtMin(dh) * HourOne)

\* nSteps = Math.ceil(duration_min / dt_min)
NSteps(dh) ==
    LET d == DtMin(dh) * HourOne
    IN  (DurationMin(dh) + d - 1) \div d

\* dt_hr = dt_min / 60
DtHr(dh) == DivTo(DtMin(dh), 60, 6)

\* t / duration_min for a time t in whole minutes
TimeFrac(t, dh) == DivTo(t * HourOne, DurationMin(dh), 6)

\* rainStep = (pEnd - pStart) * totalDepth
RainStep(pStart, pEnd, depth) == FMul(pEnd - pStart, depth)

\* intensity = rainStep / dt_hr, a rate
Intensity(rainStep, dtHr) == DivTo(rainStep, dtHr, 3)

\* mutant: the suction term is left out, fp = Ks
Capacity_NoSuction(soil, F) == soil.Ks \div (ONE \div RateOne)

\* fp = Ks * (1 + (psi * Md) / cumF), a rate
Capacity(soil, F) ==
    LET Md == soil.theta_e - soil.theta_i
    IN  FMul(soil.Ks, RateOne + DivTo(FMul(soil.psi, Md), F, 3))

\* maxInf = fp * dt_hr, a depth
MaxInf(fp, dtHr) == FMul(fp, dtHr * RateOne)

\* mutant: ponding starts only at twice the capacity
Regime_Late(pond, intensity, fp) ==
    IF ~pond /\ intensity \div 2 <= fp THEN "unsaturated" ELSE "ponded"

\* mutant: the else branch does not cap the infiltration by the rainfall
PervInf_NoMin(regime, rainStep, fp, dtHr) ==
    IF regime = "unsaturated" THEN rainStep ELSE MaxInf(fp, dtHr)

\* the branch of the if: the first one is the unsaturated formula
Regime(pond, intensity, fp) ==
    IF ~pond /\ intensity <= fp THEN "unsaturated" ELSE "ponded"

\* mutant: the else branch forgets ponded = true
PondedAfter_NeverSet(pond, regime) == pond

\* the ponded flag after the if: the else branch sets it
PondedAfter(pond, regime) == IF regime = "unsaturated" THEN pond ELSE TRUE

PervInf(regime, rainStep, fp, dtHr) ==
    IF regime = "unsaturated" THEN rainStep ELSE Min(MaxInf(fp, dtHr), rainStep)

PervRunoff(regime, rainStep, pervInf) ==
    IF regime = "unsaturated" THEN 0 ELSE Max(0, rainStep - pervInf)

\* mutant: the infiltration is not scaled by the pervious share
InfStep_WholeLot(pervInf, perviousFrac) == pervInf

\* infStep = pervInf * perviousFrac
InfStep(pervInf, perviousFrac) == FMul(pervInf, perviousFrac)

\* mutant: the impervious share of the rain is left out of the runoff
RunoffStep_NoImpervious(pervRunoff, rainStep, perviousFrac, impFrac) ==
    FMul(pervRunoff, perviousFrac)

\* runoffStep = pervRunoff * perviousFrac + rainStep * imperviousFrac
RunoffStep(pervRunoff, rainStep, perviousFrac, impFrac) ==
    FMul(pervRunoff, perviousFrac) + FMul(rainStep, impFrac)

\* mutant: "=" written for "+="
Accumulate_Assign(cum, step) == step

\* cumRain += rainStep; cumInf += infStep; cumRunoff += runoffStep
Accumulate(cum, step) == cum + step

\* the locals of loop iteration k (0-based) of runSimulation(depth, dh, sk,
\* impFrac), from the cumF and ponded left by the iterations before it
StepOf(depth, dh, sk, impFrac, k, F, pond) ==
    LET soil    == GA_SOILS[sk]
        dtMin   == DtMin(dh)
        dtHr    == DtHr(dh)
        tStart  == k * dtMin
        tEnd    == (k + 1) * dtMin
        pStart  == interpolateSCS(TimeFrac(tStart, dh))
        pEnd    == interpolateSCS(TimeFrac(tEnd, dh))
        rain    == RainStep(pStart, pEnd, depth)
        inten   == Intensity(rain, dtHr)
        fp      == Capacity(soil, F)
        regime  == Regime(pond, inten, fp)
        pInf    == PervInf(regime, rain, fp, dtHr)
        pRun    == PervRunoff(regime, rain, pInf)
        pervious == ONE - impFrac
    IN  [ tStart |-> tStart, tEnd |-> tEnd, rainStep |-> rain, intensity |-> inten,
          fp |-> fp, regime |-> regime, pervInf |-> pInf, pervRunoff |-> pRun,
          infStep |-> InfStep(pInf, pervious),
          runoffStep |-> RunoffStep(pRun, rain, pervious, impFrac) ]

\* the locals of loop iteration k of the run in progress
LoopBody(k) ==
    StepOf(totalDepth, duration_hr, soilKey, imperviousFrac, k, cumF, ponded)

\* steps.push({...}): the emitted SimStep
EmitOf(b, impFrac, cr, ci, cq) ==
    [ time |-> b.tEnd,
      timeLabel |-> <<b.tEnd \div 60, b.tEnd % 60>>,
      rainfall |-> ToFixed(b.rainStep, 3, ONE),
      intensity |-> ToFixed(b.intensity, 1, RateOne),
      infiltration |-> ToFixed(b.infStep, 3, ONE),
      infRate |-> ToFixed(FMul(b.fp, ONE - impFrac), 1, RateOne),
      runoff |-> ToFixed(b.runoffStep, 3, ONE),
      cumRain |-> ToFixed(cr, 2, ONE),
      cumInf |-> ToFixed(ci, 2, ONE),
      cumRunoff |-> ToFixed(cq, 2, ONE) ]

Emit(b, cr, ci, cq) == EmitOf(b, imperviousFrac, cr, ci, cq)

\* the for loop from iteration k on, st holding cumF, ponded, the three
\* totals and the steps pushed so far
RECURSIVE RunLoop(_, _, _, _, _, _)
RunLoop(depth, dh, sk, impFrac, k, st) ==
    IF k >= NSteps(dh) THEN st.steps
    ELSE LET b == StepOf(depth, dh, sk, impFrac, k, st.cumF, st.ponded)
             cr == Accumulate(st.cumRain, b.rainStep)
             ci == Accumulate(st.cumInf, b.infStep)
             cq == Accumulate(st.cumRunoff, b.runoffStep)
         IN  RunLoop(depth, dh, sk, impFrac, k + 1,
                     [cumF |-> st.cumF + b.pervInf,
                      ponded |-> PondedAfter(st.ponded, b.regime),
                      cumRain |-> cr, cumInf |-> ci, cumRunoff |-> cq,
                      steps |-> Append(st.steps, EmitOf(b, impFrac, cr, ci, cq))])

\* runSimulation as a function of its four arguments
runSimulation(depth, dh, sk, impFrac) ==
    RunLoop(depth, dh, sk, impFrac, 0,
            [cumF |-> 1000, ponded |-> FALSE, cumRain |-> 0, cumInf |-> 0,
             cumRunoff |-> 0, steps |-> << >>])

\* inputs of the modelled runs
TotalDepths == {18 * ONE, 72 * ONE, 100800000}
DurationsHr == {5, 100, 600, 1200, 2400}
ImperviousFracs == {0, 550000, 950000, ONE}

NoBody == [regime |-> "none"]

\* --- the StormSimulationView component ---

\* the view is not shown
SvNone == [open |-> FALSE]

\* the guard of the steps memo
StepsGuard_And(depth, lot) == depth <= 0 /\ lot <= 0

StepsGuard(depth, lot) == depth <= 0 \/ lot <= 0

\* the view with the given analysisData and state, and the inputs it derives
SvView(lot, bldg, paveFrac, sk, returnPeriod, stormDuration) ==
    [open |-> TRUE, lot |-> lot, bldg |-> bldg, paveFrac |-> paveFrac,
     soilKey |-> sk, returnPeriod |-> returnPeriod, stormDuration |-> stormDuration,
     imperviousFrac |-> IF lot > 0
                        THEN Min(FDiv(bldg + FMul(lot, paveFrac), lot), 950000)
                        ELSE 500000,
     totalDepth |-> getIntensity(returnPeriod, stormDuration * 60 * ONE) * stormDuration]

\* no loader in use
LdNone == [loader |-> "none"]

\* DrainageWaterView is not mounted
MhNone == [mounted |-> FALSE]

\* useMapData is not in use
LayNone == [mounted |-> FALSE]

SimInit ==
    /\ totalDepth \in TotalDepths
    /\ duration_hr \in DurationsHr
    /\ soilKey \in SoilKey
    /\ imperviousFrac \in ImperviousFracs
    /\ s = 0
    /\ cumF = 1000
    /\ ponded = FALSE
    /\ cumRain = 0
    /\ cumInf = 0
    /\ cumRunoff = 0
    /\ steps = << >>
    /\ body = NoBody
    /\ pc = "loop"
    /\ idf = IdfNone
    /\ pipe = PipeNone
    /\ dc = DcNone
    /\ ca = CaNone
    /\ sv = SvNone
    /\ kirpich = TcNone
    /\ scs = ScsNone
    /\ ld = LdNone
    /\ mh = MhNone
    /\ lay = LayNone

\* one iteration of the for loop
SimStep ==
    /\ pc = "loop"
    /\ s < NSteps(duration_hr)
    /\ \E b \in {LoopBody(s)} :
       \E cr \in {Accumulate(cumRain, b.rainStep)} :
       \E ci \in {Accumulate(cumInf, b.infStep)} :
       \E cq \in {Accumulate(cumRunoff, b.runoffStep)} :
           /\ body' = b
           /\ ponded' = PondedAfter(ponded, b.regime)
           /\ cumF' = cumF + b.pervInf
           /\ cumRain' = cr
           /\ cumInf' = ci
           /\ cumRunoff' = cq
           /\ steps' = Append(steps, Emit(b, cr, ci, cq))
    /\ s' = s + 1
    /\ UNCHANGED <<totalDepth, duration_hr, soilKey, imperviousFrac, pc>>
    /\ UNCHANGED <<idf, pipe, dc, ca, sv, kirpich, scs, ld, mh, lay>>

\* return steps
SimReturn ==
    /\ pc = "loop"
    /\ s >= NSteps(duration_hr)
    /\ pc' = "done"
    /\ UNCHANGED <<totalDepth, duration_hr, soilKey, imperviousFrac, s, cumF,
                   ponded, cumRain, cumInf, cumRunoff, steps, body>>
    /\ UNCHANGED <<idf, pipe, dc, ca, sv, kirpich, scs, ld, mh, lay>>

SimNext == SimStep \/ SimReturn

SpecSim == SimInit /\ [][SimNext]_vars

\* the for loop's header: SimStep is enabled exactly when LoopAdvance is, and
\* is the only action that changes s
LoopAdvance == pc = "loop" /\ s < NSteps(duration_hr) /\ s' = s + 1

\* SimReturn is enabled exactly when LoopExit is, and is the only action
\* that changes pc to "done"
LoopExit == pc = "loop" /\ s >= NSteps(duration_hr) /\ pc' = "done"

\* the loop is synchronous code: it runs until it returns
SpecSimFair == SpecSim /\ WF_s(LoopAdvance) /\ WF_pc(LoopExit)

(***************************************************************************)
(* Claims about runSimulation, checked under SpecSim                       *)
(***************************************************************************)

Abs(x) == IF x >= 0 THEN x ELSE 0 - x

\* one unit of the last digit of a per-step field (toFixed(3)) and of a
\* cumulative field (toFixed(2))
StepTol == ONE \div 10^3
CumTol == ONE \div 10^2

\* C1: every emitted step has rainfall = infiltration + runoff to within one
\* unit of its last emitted digit (0.001 mm), and when the run has returned
\* the last step has cumRain = cumInf + cumRunoff to within 0.01 mm.
C1_MassBalance ==
    /\ \A k \in 1..Len(steps) :
          Abs(steps[k].rainfall - (steps[k].infiltration + steps[k].runoff)) <= StepTol
    /\ (pc = "done" /\ Len(steps) > 0) =>
          LET last == steps[Len(steps)]
          IN  Abs(last.cumRain - (last.cumInf + last.cumRunoff)) <= CumTol

\* a returned run on a partly impervious lot that ponded, with a step in
\* which part of the rain infiltrated and part ran off
C1_Witness ==
    /\ pc = "done"
    /\ ponded
    /\ imperviousFrac > 0 /\ imperviousFrac < ONE
    /\ \E k \in 1..Len(steps) : steps[k].infiltration > 0 /\ steps[k].runoff > steps[k].infiltration
    /\ steps[Len(steps)].cumInf > 0

\* C2: ponding is irreversible within a run: once the flag is set it stays
\* set, and once an iteration has taken the ponded branch every later
\* iteration takes it too.
C2_PondingIrreversible ==
    [][ /\ (ponded => ponded')
        /\ (body.regime = "ponded" => body'.regime = "ponded") ]_vars

\* an iteration after the transition that took the ponded branch although
\* its intensity was at or below the capacity
C2_Witness ==
    /\ pc = "loop"
    /\ body.regime = "ponded"
    /\ body.intensity <= body.fp
    /\ body.rainStep > 0
    /\ \E k \in 1..(Len(steps) - 1) : steps[k].runoff > steps[k].infiltration

\* C3: cumRain, cumInf and cumRunoff never decrease from one emitted step
\* to the next.
C3_CumulativeNonDecreasing ==
    \A k \in 1..(Len(steps) - 1) :
        /\ steps[k].cumRain <= steps[k + 1].cumRain
        /\ steps[k].cumInf <= steps[k + 1].cumInf
        /\ steps[k].cumRunoff <= steps[k + 1].cumRunoff

\* a returned run whose three totals all grew between two emitted steps
C3_Witness ==
    /\ pc = "done"
    /\ \E k \in 1..(Len(steps) - 1) :
          /\ steps[k].cumRain < steps[k + 1].cumRain
          /\ steps[k].cumInf < steps[k + 1].cumInf
          /\ steps[k].cumRunoff < steps[k + 1].cumRunoff

(***************************************************************************)
(* IDF lookups: a session of queries to the interpolators                  *)
(***************************************************************************)

\* runSimulation is not running
SimIdle ==
    /\ totalDepth = 0
    /\ duration_hr = 0
    /\ soilKey = "clay"
    /\ imperviousFrac = 0
    /\ s = 0
    /\ cumF = 0
    /\ ponded = FALSE
    /\ cumRain = 0
    /\ cumInf = 0
    /\ cumRunoff = 0
    /\ steps = << >>
    /\ body = NoBody
    /\ pc = "idle"

\* return periods asked for: the six of the table and one it does not hold
QueryReturnPeriods == {IDF_RETURN_PERIODS[j] : j \in DOMAIN IDF_RETURN_PERIODS} \cup {20}

\* durations asked for, in half minutes: below, at, between and above the anchors
HalfMinutes == {2, 5, 9, 10, 11, 12, 15, 20, 25, 30, 40, 60, 90, 120, 180, 240,
                480, 720, 1000, 1440, 2000, 2879, 2880, 2881, 4000}

QueryDurations == {k * (ONE \div 2) : k \in HalfMinutes}

\* one design storm looked up in the three views
IdfLookup(rp, dur) ==
    [rp |-> rp, dur |-> dur,
     drain |-> interpolateIntensity(dur, rp),
     storm |-> getIntensity(rp, dur),
     cost |-> CostGetIntensity(rp, dur)]

IdfInit ==
    /\ SimIdle
    /\ pipe = PipeNone
    /\ dc = DcNone
    /\ ca = CaNone
    /\ sv = SvNone
    /\ kirpich = TcNone
    /\ scs = ScsNone
    /\ ld = LdNone
    /\ mh = MhNone
    /\ lay = LayNone
    /\ \E rp \in QueryReturnPeriods : \E dur \in QueryDurations :
           idf = IdfLookup(rp, dur)

\* the return-period selector changes
IdfSetReturnPeriod ==
    /\ \E rp \in QueryReturnPeriods : idf' = IdfLookup(rp, idf.dur)
    /\ UNCHANGED <<simVars, pipe, dc, ca, sv, kirpich, scs, ld, mh, lay>>

\* the duration (or time of concentration) changes
IdfSetDuration ==
    /\ \E dur \in QueryDurations : idf' = IdfLookup(idf.rp, dur)
    /\ UNCHANGED <<simVars, pipe, dc, ca, sv, kirpich, scs, ld, mh, lay>>

IdfNext == IdfSetReturnPeriod \/ IdfSetDuration

SpecIdf == IdfInit /\ [][IdfNext]_vars

KnownReturnPeriod(rp) == rp \in DOMAIN IDF_INTENSITIES /\ rp \in DOMAIN IDF

FirstAnchor == IDF_DURATIONS[1] * ONE

LastAnchor == IDF_DURATIONS[Len(IDF_DURATIONS)] * ONE

\* C7: for a known return period, a duration at or below 5 min gets exactly
\* the table value of the 5 min anchor and a duration at or above 1440 min
\* exactly the table value of the 1440 min anchor, in interpolateIntensity
\* and in getIntensity.
C7_IdfClamp ==
    KnownReturnPeriod(idf.rp) =>
        /\ idf.dur <= FirstAnchor =>
               /\ idf.drain = IDF_INTENSITIES[idf.rp][1]
               /\ idf.storm = IDF[idf.rp][IDF_DURATIONS[1]]
        /\ idf.dur >= LastAnchor =>
               /\ idf.drain = IDF_INTENSITIES[idf.rp][Len(IDF_DURATIONS)]
               /\ idf.storm = IDF[idf.rp][IDF_DURATIONS[Len(IDF_DURATIONS)]]

\* a 100-year storm asked for beyond the last anchor
C7_Witness ==
    /\ idf.rp = 100
    /\ idf.dur > LastAnchor
    /\ idf.drain = IDF_INTENSITIES[100][9]
    /\ idf.storm = IDF[100][1440]

\* C8: for a fixed known return period, a query at a longer (or equal)
\* duration never answers a higher intensity than the query before it.
C8_IdfMonotone ==
    [][ (KnownReturnPeriod(idf.rp) /\ idf'.rp = idf.rp /\ idf.dur <= idf'.dur)
            => (idf'.drain <= idf.drain /\ idf'.storm <= idf.storm) ]_vars

\* an interpolated answer between the first two anchors, strictly between
\* their table values
C8_Witness ==
    /\ idf.rp = 2
    /\ idf.dur > FirstAnchor /\ idf.dur < IDF_DURATIONS[2] * ONE
    /\ idf.drain < IDF_INTENSITIES[2][1] /\ idf.drain > IDF_INTENSITIES[2][2]
    /\ idf.storm < IDF[2][5] /\ idf.storm > IDF[2][10]

(***************************************************************************)
(* Pipe sizing: a session of peak discharges sized by both views           *)
(***************************************************************************)

\* discharges asked for are -QUnit, 0 and k^2 * QUnit for k in 1 .. MaxQ
QUnit == ONE \div 5000

MaxQ == 125

QueryDischarges == {0 - QUnit, 0} \cup {k * k * QUnit : k \in 1 .. MaxQ}

\* one discharge sized in the two views
PipeSizing(Q) ==
    [Q |-> Q,
     required |-> requiredPipeDiameter(Q),
     selected |-> roundUpPipe(requiredPipeDiameter(Q)),
     costRequired |-> calcPipeDia(Q),
     costSelected |-> CostRoundUpPipe(calcPipeDia(Q))]

PipeInit ==
    /\ SimIdle
    /\ idf = IdfNone
    /\ dc = DcNone
    /\ ca = CaNone
    /\ sv = SvNone
    /\ kirpich = TcNone
    /\ scs = ScsNone
    /\ ld = LdNone
    /\ mh = MhNone
    /\ lay = LayNone
    /\ \E Q \in QueryDischarges : pipe = PipeSizing(Q)

\* the peak discharge changes and the pipe is sized again
PipeResize ==
    /\ \E Q \in QueryDischarges : pipe' = PipeSizing(Q)
    /\ UNCHANGED <<simVars, idf, dc, ca, sv, kirpich, scs, ld, mh, lay>>

PipeNext == PipeResize

SpecPipe == PipeInit /\ [][PipeNext]_vars

LargestPipe == STANDARD_PIPES[Len(STANDARD_PIPES)]

CostLargestPipe == CostSTANDARD_PIPES[Len(CostSTANDARD_PIPES)]

Catalogue == {STANDARD_PIPES[j] : j \in DOMAIN STANDARD_PIPES}

\* C4 as stated: for every Q the selected diameter is at least the required
\* diameter, in the design-storm table and in the cost-linked sizing.
C4_SelectedAtLeastRequired ==
    /\ pipe.selected * ONE >= pipe.required
    /\ pipe.costRequired # NaN => pipe.costSelected * ONE >= pipe.costRequired

\* C4 amended: the selected diameter is at least the required diameter
\* whenever the required diameter does not exceed the largest catalogue
\* entry; beyond it the largest entry is selected.
C4_SelectedAtLeastRequiredInRange ==
    /\ pipe.required <= LargestPipe * ONE => pipe.selected * ONE >= pipe.required
    /\ pipe.required > LargestPipe * ONE => pipe.selected = LargestPipe
    /\ (pipe.costRequired # NaN /\ pipe.costRequired <= CostLargestPipe * ONE)
           => pipe.costSelected * ONE >= pipe.costRequired
    /\ (pipe.costRequired # NaN /\ pipe.costRequired > CostLargestPipe * ONE)
           => pipe.costSelected = CostLargestPipe

\* a positive discharge rounded up to a strictly larger catalogue entry in
\* both views
C4_Witness ==
    /\ pipe.Q > 0
    /\ pipe.required > STANDARD_PIPES[1] * ONE
    /\ pipe.required <= LargestPipe * ONE
    /\ pipe.selected * ONE > pipe.required
    /\ pipe.costSelected * ONE > pipe.costRequired

\* C5: every selected diameter, in the design-storm table and in the
\* cost-linked sizing, is a member of the 75-900 mm catalogue.
C5_SelectedInCatalogue ==
    /\ pipe.selected \in Catalogue
    /\ pipe.costSelected \in Catalogue

\* C9: when a discharge is followed by a larger (or equal) one, neither the
\* required nor the selected diameter decreases.
C9_PipeMonotone ==
    [][ pipe.Q <= pipe'.Q
            => (pipe.required <= pipe'.required /\ pipe.selected <= pipe'.selected) ]_vars

\* a discharge beyond the catalogue, where the selected diameter stays at
\* the largest entry while the required one exceeds it
C9_Witness ==
    /\ pipe.Q > ONE
    /\ pipe.required > LargestPipe * ONE
    /\ pipe.selected = LargestPipe

(***************************************************************************)
(* The two Rational Method views driven by the property search             *)
(***************************************************************************)

\* analysisData of the properties searched for: lotSize and buildingArea in
\* m2 at AreaOne, zoningPaveFrac at ONE
Property(lot, builtPct, zpf) ==
    [lotSize |-> lot * AreaOne, buildingArea |-> lot * builtPct,
     zoningPaveFrac |-> zpf]

NoLot == [lotSize |-> 0, buildingArea |-> 0, zoningPaveFrac |-> 150000]

\* properties opened in the engineering view
Properties ==
    { Property(450, 40, 150000), Property(450, 0, 150000),
      Property(450, 90, 450000), Property(1000, 60, 450000),
      Property(100000, 20, 350000), NoLot }

\* properties opened in the cost view
CostProperties ==
    {Property(lot, b, z) : lot \in {450, 1000, 100000}, b \in {0, 40, 90, 100},
                           z \in {150000, 450000}}

\* positions of the pavement slider that are visited: 0, PctStep, ... up to max="40"
PctStep == 20

SliderValues == {k * PctStep : k \in 0 .. (40 \div PctStep)}

OthersIdle ==
    /\ SimIdle /\ idf = IdfNone /\ pipe = PipeNone /\ sv = SvNone
    /\ kirpich = TcNone /\ scs = ScsNone /\ ld = LdNone /\ mh = MhNone /\ lay = LayNone

\* --- DrainageCalculator ---

DcInit == OthersIdle /\ ca = CaNone /\ dc = DcNone

\* analysisData appears: the component mounts with fresh state
DcMount ==
    /\ ~dc.mounted
    /\ \E p \in Properties :
           dc' = DcView(p.lotSize, p.buildingArea, p.zoningPaveFrac, NoLid,
                        DefaultPave(p.zoningPaveFrac))
    /\ UNCHANGED <<simVars, idf, pipe, ca, sv, kirpich, scs, ld, mh, lay>>

\* analysisData goes away: the component unmounts
DcUnmount ==
    /\ dc.mounted
    /\ dc' = DcNone
    /\ UNCHANGED <<simVars, idf, pipe, ca, sv, kirpich, scs, ld, mh, lay>>

\* another property is selected: new props, state kept
DcProps ==
    /\ dc.mounted
    /\ \E p \in Properties :
           dc' = DcView(p.lotSize, p.buildingArea, p.zoningPaveFrac, dc.lid,
                        dc.pavementPct)
    /\ UNCHANGED <<simVars, idf, pipe, ca, sv, kirpich, scs, ld, mh, lay>>

\* toggle(key)
toggle ==
    /\ dc.mounted /\ ~dc.out.empty
    /\ \E key \in DOMAIN NoLid :
           dc' = DcView(dc.lotSize, dc.buildingArea, dc.zoningPaveFrac,
                        [dc.lid EXCEPT ![key] = ~dc.lid[key]], dc.pavementPct)
    /\ UNCHANGED <<simVars, idf, pipe, ca, sv, kirpich, scs, ld, mh, lay>>

\* the pavement slider moves
setPavementPct ==
    /\ dc.mounted /\ ~dc.out.empty
    /\ \E v \in SliderValues :
           dc' = DcView(dc.lotSize, dc.buildingArea, dc.zoningPaveFrac, dc.lid, v)
    /\ UNCHANGED <<simVars, idf, pipe, ca, sv, kirpich, scs, ld, mh, lay>>

DcNext == DcMount \/ DcUnmount \/ DcProps \/ toggle \/ setPavementPct

SpecDrain == DcInit /\ [][DcNext]_vars

\* --- CostAnalysisView ---

CaInit == OthersIdle /\ dc = DcNone /\ ca = CaNone

\* a property is selected (or the selection is cleared)
CaProperty ==
    /\ \E p \in CostProperties :
           ca' = CaView(p.lotSize, p.buildingArea, p.zoningPaveFrac, ca.returnPeriod)
    /\ UNCHANGED <<simVars, idf, pipe, dc, sv, kirpich, scs, ld, mh, lay>>

CaClear ==
    /\ ca' = CaView(0, 0, 150000, ca.returnPeriod)
    /\ UNCHANGED <<simVars, idf, pipe, dc, sv, kirpich, scs, ld, mh, lay>>

setReturnPeriod ==
    /\ \E j \in DOMAIN IDF_RETURN_PERIODS :
           ca' = CaView(ca.lot, ca.bldg, ca.paveFrac, IDF_RETURN_PERIODS[j])
    /\ UNCHANGED <<simVars, idf, pipe, dc, sv, kirpich, scs, ld, mh, lay>>

CaNext == CaProperty \/ CaClear \/ setReturnPeriod

SpecCost == CaInit /\ [][CaNext]_vars

\* lot area > 0, 0 <= building area <= lot area, pavement fraction in [0, 1]
ValidSite(lot, bldg, paveFrac) ==
    lot > 0 /\ bldg >= 0 /\ bldg <= lot /\ paveFrac >= 0 /\ paveFrac <= ONE

InBounds(C) == C >= 100000 /\ C <= 950000

\* C6: for valid inputs the composite C lies in [0.1, 0.95] wherever it is
\* computed: baseC and lidC of DrainageCalculator and C of the cost view.
C6_CoefficientBounds ==
    /\ (dc.mounted
            /\ ValidSite(dc.lotSize, dc.buildingArea, DivTo(dc.pavementPct, 100, 6)))
           => (InBounds(dc.out.baseC) /\ InBounds(dc.out.lidC))
    /\ ValidSite(ca.lot, ca.bldg, ca.paveFrac) => InBounds(ca.calc.C)

\* the engineering view open with only the green roof toggled on, on a lot
\* with a building
GreenRoofOnly == [NoLid EXCEPT !.greenRoof = TRUE]

GreenRoofCase ==
    dc.mounted /\ dc.lotSize > 0 /\ dc.buildingArea > 0 /\ dc.lid = GreenRoofOnly

\* C of the current LID selection before the final clamp
LidRaw ==
    CompositeRaw(dc.out.clampedBuilding, dc.out.pavementArea, dc.out.lawnArea,
                 dc.lotSize, dc.lid)

LowerOrEqualResults ==
    \A j \in DOMAIN dc.out.results :
        /\ dc.out.results[j].Q_lid <= dc.out.results[j].Q_base
        /\ dc.out.results[j].pipe_lid <= dc.out.results[j].pipe_base

\* C10 as stated: with a positive building area and only the green roof on,
\* lidC is strictly below baseC, and Q_lid <= Q_base and pipe_lid <= pipe_base
\* for every return period.
C10_GreenRoofStrictlyLower ==
    GreenRoofCase => (dc.out.lidC < dc.out.baseC /\ LowerOrEqualResults)

\* C10 amended: lidC is never above baseC and is strictly below it whenever
\* the green-roof composite is below the 0.95 clamp before clamping; at or
\* above the clamp both are 0.95.  Q_lid <= Q_base and pipe_lid <= pipe_base
\* for every return period.
C10_GreenRoofLowerUnlessClamped ==
    GreenRoofCase =>
        /\ dc.out.lidC <= dc.out.baseC
        /\ LidRaw < 950000 => dc.out.lidC < dc.out.baseC
        /\ LidRaw >= 950000 => (dc.out.lidC = 950000 /\ dc.out.baseC = 950000)
        /\ LowerOrEqualResults

\* a green roof that lowers C, the 100-year discharge and the 100-year pipe
C10_Witness ==
    /\ GreenRoofCase
    /\ dc.out.lidC < dc.out.baseC
    /\ dc.out.results[6].Q_lid < dc.out.results[6].Q_base
    /\ dc.out.results[6].pipe_lid < dc.out.results[6].pipe_base

\* the bioswale toggle is flipped and nothing else changes
BioswaleToggled ==
    /\ dc.mounted /\ dc'.mounted /\ dc.lotSize > 0
    /\ dc'.lotSize = dc.lotSize /\ dc'.buildingArea = dc.buildingArea
    /\ dc'.pavementPct = dc.pavementPct
    /\ dc'.lid = [dc.lid EXCEPT !.bioswale = ~dc.lid.bioswale]

\* C11: flipping the bioswale toggle leaves baseC and lidC unchanged; for
\* every return period the Q_lid and vol_lid with bioswale are 0.80 times the
\* ones without, Q_base is unchanged, and pipe_lid is sized from the
\* attenuated Q_lid.
C11_BioswaleAttenuates ==
    [][ BioswaleToggled =>
          /\ dc'.out.lidC = dc.out.lidC
          /\ dc'.out.baseC = dc.out.baseC
          /\ \A j \in DOMAIN dc.out.results :
               LET with == IF dc'.lid.bioswale THEN dc'.out.results[j]
                           ELSE dc.out.results[j]
                   without == IF dc'.lid.bioswale THEN dc.out.results[j]
                              ELSE dc'.out.results[j]
               IN  /\ with.Q_lid = FMul(without.Q_lid, 800000)
                   /\ with.vol_lid = FMul(without.vol_lid, 800000)
                   /\ with.Q_base = without.Q_base
                   /\ with.pipe_lid = roundUpPipe(requiredPipeDiameter(with.Q_lid)) ]_vars

\* bioswale alone: C unchanged, the 100-year Q_lid is 0.80 Q_base and the
\* 2-year pipe is a size smaller
C11_Witness ==
    /\ dc.mounted /\ dc.lotSize > 0
    /\ dc.lid = [NoLid EXCEPT !.bioswale = TRUE]
    /\ dc.out.lidC = dc.out.baseC
    /\ dc.out.results[6].Q_lid = FMul(dc.out.results[6].Q_base, 800000)
    /\ dc.out.results[6].Q_lid < dc.out.results[6].Q_base
    /\ \E j \in DOMAIN dc.out.results :
           dc.out.results[j].pipe_lid < dc.out.results[j].pipe_base

\* C12: for a return period that is a key of none of the three IDF tables,
\* interpolateIntensity and both getIntensity copies answer 0 at every
\* duration.
C12_UnknownReturnPeriodZero ==
    (idf.rp \notin DOMAIN IDF_INTENSITIES /\ idf.rp \notin DOMAIN IDF
        /\ idf.rp \notin DOMAIN CostIDF)
        => (idf.drain = 0 /\ idf.storm = 0 /\ idf.cost = 0)

\* a 20-year storm asked for between two anchors
C12_Witness ==
    /\ idf.rp = 20
    /\ idf.dur > FirstAnchor /\ idf.dur < LastAnchor
    /\ idf.drain = 0 /\ idf.storm = 0 /\ idf.cost = 0

(***************************************************************************)
(* The storm simulation view, and the site views shown one at a time       *)
(***************************************************************************)

\* analysisData, soils, return periods and durations chosen in the storm
\* view; 20 stands for a return period value outside the table
StormProperties == {NoLot, Property(450, 40, 150000), Property(450, 90, 450000)}

StormSoils == {"clayLoam", "clay", "sand"}

StormReturnPeriods == {2, 100, 20}

StormDurations == {1, 6, 12, 24}

\* mutant: cumF and ponded are kept from the run before
StormRender_KeepsState(v) ==
    /\ sv' = v
    /\ IF StepsGuard(v.totalDepth, v.lot)
       THEN /\ totalDepth' = 0 /\ duration_hr' = 0 /\ soilKey' = "clay"
            /\ imperviousFrac' = 0 /\ cumF' = 0 /\ pc' = "idle"
            /\ ponded' = FALSE
       ELSE /\ totalDepth' = v.totalDepth
            /\ duration_hr' = v.stormDuration * HourOne
            /\ soilKey' = v.soilKey
            /\ imperviousFrac' = v.imperviousFrac
            /\ cumF' = Max(cumF, 1000)
            /\ pc' = "loop"
            /\ ponded' = ponded
    /\ s' = 0 /\ cumRain' = 0 /\ cumInf' = 0 /\ cumRunoff' = 0
    /\ steps' = << >> /\ body' = NoBody
    /\ UNCHANGED <<idf, pipe, dc, ca, kirpich, scs, ld, mh, lay>>

\* one render of the view: the steps memo either returns [] or calls
\* runSimulation, which then runs to its return
StormRender(v) ==
    /\ sv' = v
    /\ IF StepsGuard(v.totalDepth, v.lot)
       THEN /\ totalDepth' = 0 /\ duration_hr' = 0 /\ soilKey' = "clay"
            /\ imperviousFrac' = 0 /\ cumF' = 0 /\ pc' = "idle"
       ELSE /\ totalDepth' = v.totalDepth
            /\ duration_hr' = v.stormDuration * HourOne
            /\ soilKey' = v.soilKey
            /\ imperviousFrac' = v.imperviousFrac
            /\ cumF' = 1000
            /\ pc' = "loop"
    /\ s' = 0 /\ ponded' = FALSE /\ cumRain' = 0 /\ cumInf' = 0 /\ cumRunoff' = 0
    /\ steps' = << >> /\ body' = NoBody
    /\ UNCHANGED <<idf, pipe, dc, ca, kirpich, scs, ld, mh, lay>>

\* the simulation tab is selected; no analysisData yet
StormOpen ==
    /\ ~sv.open /\ ~dc.mounted
    /\ StormRender(SvView(0, 0, 150000, "clayLoam", 100, 6))

\* another tab is selected
StormClose ==
    /\ sv.open /\ pc # "loop"
    /\ sv' = SvNone
    /\ totalDepth' = 0 /\ duration_hr' = 0 /\ soilKey' = "clay"
    /\ imperviousFrac' = 0 /\ cumF' = 0 /\ pc' = "idle"
    /\ s' = 0 /\ ponded' = FALSE /\ cumRain' = 0 /\ cumInf' = 0 /\ cumRunoff' = 0
    /\ steps' = << >> /\ body' = NoBody
    /\ UNCHANGED <<idf, pipe, dc, ca, kirpich, scs, ld, mh, lay>>

\* analysisData changes
StormProperty ==
    /\ sv.open /\ pc # "loop"
    /\ \E p \in StormProperties :
           StormRender(SvView(p.lotSize, p.buildingArea, p.zoningPaveFrac,
                              sv.soilKey, sv.returnPeriod, sv.stormDuration))

setSoilKey ==
    /\ sv.open /\ pc # "loop"
    /\ \E k \in StormSoils :
           StormRender(SvView(sv.lot, sv.bldg, sv.paveFrac, k, sv.returnPeriod,
                              sv.stormDuration))

StormSetReturnPeriod ==
    /\ sv.open /\ pc # "loop"
    /\ \E rp \in StormReturnPeriods :
           StormRender(SvView(sv.lot, sv.bldg, sv.paveFrac, sv.soilKey, rp,
                              sv.stormDuration))

setStormDuration ==
    /\ sv.open /\ pc # "loop"
    /\ \E d \in StormDurations :
           StormRender(SvView(sv.lot, sv.bldg, sv.paveFrac, sv.soilKey,
                              sv.returnPeriod, d))

\* the engineering view gets its analysisData while the storm view is closed
EngMount == ~sv.open /\ DcMount

SiteInit == DcInit

SiteNext ==
    \/ StormOpen \/ StormClose \/ StormProperty \/ setSoilKey
    \/ StormSetReturnPeriod \/ setStormDuration \/ SimStep \/ SimReturn
    \/ EngMount \/ DcUnmount \/ DcProps \/ toggle \/ setPavementPct

SpecSite == SiteInit /\ [][SiteNext]_vars

\* C13: while the total depth or the lot area is not positive the storm view
\* holds the empty step list and runSimulation has not been entered, and the
\* drainage calculator with a lot size <= 0 renders its empty state without
\* results.
C13_UpstreamGuard ==
    /\ (sv.open /\ (sv.totalDepth <= 0 \/ sv.lot <= 0))
           => (pc = "idle" /\ s = 0 /\ steps = << >>)
    /\ (dc.mounted /\ dc.lotSize <= 0) => dc.out = [empty |-> TRUE]

\* a lot with a storm of zero depth: nothing simulated
C13_Witness ==
    /\ sv.open /\ sv.lot > 0 /\ sv.totalDepth <= 0
    /\ pc = "idle" /\ steps = << >>

\* --- C14: soft ceiling of the pipe catalogue ---

CostCatalogue == {CostSTANDARD_PIPES[j] : j \in DOMAIN CostSTANDARD_PIPES}

\* size is the smallest entry of catalogue cat that is >= required
SmallestFit(size, required, cat) ==
    /\ size \in cat
    /\ size * ONE >= required
    /\ \A c \in cat : c * ONE >= required => size <= c

\* C14: a required diameter above the largest catalogue entry is sized at
\* the largest entry (a number, no error value); every required diameter not
\* above it is sized at the smallest catalogue entry that is >= it. Each view
\* is measured against its own catalogue.
C14_SoftCeiling ==
    /\ pipe.required > LargestPipe * ONE => pipe.selected = LargestPipe
    /\ pipe.required <= LargestPipe * ONE
           => SmallestFit(pipe.selected, pipe.required, Catalogue)
    /\ pipe.costRequired # NaN =>
           /\ pipe.costRequired > CostLargestPipe * ONE
                  => pipe.costSelected = CostLargestPipe
           /\ pipe.costRequired <= CostLargestPipe * ONE
                  => SmallestFit(pipe.costSelected, pipe.costRequired, CostCatalogue)

\* a discharge whose required diameter is beyond both catalogues, sized at
\* the largest entry of each
C14_Witness ==
    /\ pipe.required > LargestPipe * ONE
    /\ pipe.selected = LargestPipe
    /\ pipe.costRequired # NaN
    /\ pipe.costRequired > CostLargestPipe * ONE
    /\ pipe.costSelected = CostLargestPipe

\* --- C15: the 85 % building clamp ---

\* Math.min(buildingArea, lotSize * 0.85)
ClampedBuilding(lot, bldg) == Min(bldg, FMul(lot, 850000))

\* C15: wherever building area enters a calculation it is first clamped to
\* 85 % of the lot: the engineering view's areas and the cost view's calc
\* are those of the clamped building area.
C15_BuildingClamped ==
    /\ (dc.mounted /\ dc.lotSize > 0)
           => /\ dc.out.clampedBuilding <= FMul(dc.lotSize, 850000)
              /\ dc.out = DcRender(dc.lotSize, ClampedBuilding(dc.lotSize, dc.buildingArea),
                                   dc.lid, dc.pavementPct)
    /\ ca.lot > 0
           => ca.calc = Calc(ca.lot, ClampedBuilding(ca.lot, ca.bldg),
                             ca.paveFrac, ca.returnPeriod)

\* --- C16: time of concentration ---

MaxLotK == 100

\* lot areas from 200 m2 to 2 km2
LotAreas == {k * k * 200 * AreaOne : k \in 1 .. MaxLotK}

TcInit ==
    /\ SimIdle
    /\ idf = IdfNone
    /\ pipe = PipeNone
    /\ dc = DcNone
    /\ ca = CaNone
    /\ sv = SvNone
    /\ scs = ScsNone
    /\ ld = LdNone
    /\ mh = MhNone
    /\ lay = LayNone
    /\ \E a \in LotAreas : kirpich = TcQuery(a)

\* another property is analysed
TcLot ==
    /\ \E a \in LotAreas : kirpich' = TcQuery(a)
    /\ UNCHANGED <<simVars, idf, pipe, dc, ca, sv, scs, ld, mh, lay>>

TcNext == TcLot

SpecTc == TcInit /\ [][TcNext]_vars

InTcRange(tc) == tc >= 5 * ONE /\ tc <= 30 * ONE

\* C16: the time of concentration of every lot area lies in [5, 30] minutes,
\* and a lot area followed by a larger (or equal) one never has the larger tc,
\* in the engineering view's estimator and in the cost view's.
C16_TcClampedMonotone ==
    /\ [](InTcRange(kirpich.tc) /\ InTcRange(kirpich.costTc))
    /\ [][ kirpich.lotArea <= kirpich'.lotArea
              => (kirpich.tc <= kirpich'.tc /\ kirpich.costTc <= kirpich'.costTc) ]_vars

\* a lot whose Kirpich value lies strictly inside the interval in both views
C16_Witness ==
    /\ kirpich.tc > 5 * ONE
    /\ kirpich.tc < 30 * ONE
    /\ kirpich.costTc > 5 * ONE
    /\ kirpich.costTc < 30 * ONE

\* --- C17: number and times of the steps ---

\* the step size the duration calls for, minutes
StepSize ==
    IF duration_hr <= 1 * HourOne THEN 2
    ELSE IF duration_hr <= 6 * HourOne THEN 5 ELSE 10

\* n = ceil(duration_min / dt): n steps cover the duration, n - 1 do not
IsCeilOfDuration(n, dt) ==
    /\ n * dt * HourOne >= duration_hr * 60
    /\ (n - 1) * dt * HourOne < duration_hr * 60

\* C17: every run returns, and it returns exactly N = ceil(duration_min / dt)
\* steps with dt = 2, 5 or 10 minutes by duration; the k-th step emitted
\* carries the time k x dt, whatever the rainfall, soil and ponding state.
C17_FixedStepCount ==
    /\ <>(pc = "done")
    /\ [](/\ \A k \in 1 .. Len(steps) : steps[k].time = k * StepSize
          /\ \A k \in 2 .. Len(steps) : steps[k - 1].time < steps[k].time
          /\ pc = "done" => IsCeilOfDuration(Len(steps), StepSize))

\* a 3-minute storm returned two 2-minute steps, the run being ponded
C17_Witness ==
    /\ pc = "done"
    /\ duration_hr = 5
    /\ Len(steps) = 2
    /\ steps[2].time = 4
    /\ ponded

\* --- C19, C20: the ponding transition ---

\* fp = Ks * (1 + psi * Md / F) with the cumulative infiltration before the step
CapacityBefore == Capacity(GA_SOILS[soilKey], cumF)

\* C19: a run starts unsaturated; a step leaves the run ponded exactly when
\* it was ponded before or the step's intensity exceeds the capacity computed
\* from F before the step; a step that leaves the run unsaturated infiltrates
\* its whole rainfall with zero pervious runoff, and a step that leaves it
\* ponded infiltrates min(fp x dt, rainfall), the remainder being pervious
\* runoff.
C19_PondingTransition ==
    /\ [](s = 0 => ~ponded)
    /\ [][ s' = s + 1 =>
             /\ body'.fp = CapacityBefore
             /\ ponded' = (ponded \/ body'.intensity > CapacityBefore)
             /\ ~ponded' => (body'.pervInf = body'.rainStep /\ body'.pervRunoff = 0)
             /\ ponded' =>
                   /\ body'.pervInf
                        = Min(MaxInf(CapacityBefore, DtHr(duration_hr)), body'.rainStep)
                   /\ body'.pervRunoff = body'.rainStep - body'.pervInf ]_vars

\* on a fully pervious lot, the step that enters the ponded regime after
\* earlier steps without runoff: its intensity exceeds fp and it is the first
\* step with runoff
C19_Witness ==
    /\ s > 1
    /\ ponded
    /\ imperviousFrac = 0
    /\ body.intensity > body.fp
    /\ body.runoffStep > 0
    /\ cumRunoff = body.runoffStep
    /\ cumInf > body.infStep

\* min(fp x dt, rainStep) of the simulator without the flag. A capacity of
\* 10 m/h or more exceeds the rainfall of any step of the modelled storms
\* (fp x dt >= 333 mm with dt >= 2 min, the largest storm being 100.8 mm), so
\* the minimum is the rainfall; the product is formed below that capacity.
FlaglessInf(fp, dtHr, rainStep) ==
    IF fp >= 10000 * RateOne THEN rainStep ELSE Min(MaxInf(fp, dtHr), rainStep)

\* C20: every step's pervious infiltration and pervious runoff are those of
\* the simulator without the flag, min(fp x dt, rainfall) and the remainder,
\* from the same state before the step; a step whose intensity is at or below
\* the capacity has zero pervious runoff, ponded or not.
C20_FlagIrrelevant ==
    [][ s' = s + 1 =>
          /\ body'.pervInf
               = FlaglessInf(CapacityBefore, DtHr(duration_hr), body'.rainStep)
          /\ body'.pervRunoff = Max(0, body'.rainStep - body'.pervInf)
          /\ body'.intensity <= body'.fp => body'.pervRunoff = 0 ]_vars

\* a step of an already ponded run whose intensity is at or below capacity
C20_Witness ==
    /\ ponded
    /\ body.regime = "ponded"
    /\ body.intensity <= body.fp
    /\ body.rainStep > 0
    /\ body.pervRunoff = 0
    /\ cumRunoff > 0

\* --- C18: the simulation result is a function of its four inputs ---

C21_ImperviousShareRunsOff ==
    body.regime # "none" =>
        /\ body.runoffStep >= FMul(body.rainStep, imperviousFrac)
        /\ body.infStep <= FMul(body.rainStep, ONE - imperviousFrac)
        /\ imperviousFrac = ONE
               => (body.infStep = 0 /\ body.runoffStep = body.rainStep)

\* a rainy step on a fully impervious lot
C21_Witness ==
    /\ body.regime # "none"
    /\ imperviousFrac = ONE
    /\ body.rainStep > 0
    /\ body.pervInf > 0
    /\ body.infStep = 0
    /\ body.runoffStep = body.rainStep

\* --- C22: the step rainfalls sum to the storm depth ---

\* C22: when a run has returned, the accumulated rainfall is the total depth
\* (to within the truncation of one unit of 10^-6 mm per step) and the last
\* step's emitted cumRain is the total depth at its two decimals, also when
\* the last step ends after the storm does.
C22_RainSumsToDepth ==
    (pc = "done" /\ Len(steps) > 0) =>
        /\ cumRain <= totalDepth
        /\ totalDepth - cumRain <= Len(steps)
        /\ steps[Len(steps)].cumRain = ToFixed(totalDepth, 2, ONE)

\* a returned 3-minute storm of two 2-minute steps, the second ending after
\* the storm
C22_Witness ==
    /\ pc = "done"
    /\ duration_hr = 5
    /\ Len(steps) = 2
    /\ steps[2].time * HourOne > DurationMin(duration_hr)
    /\ steps[2].cumRain = ToFixed(totalDepth, 2, ONE)
    /\ steps[1].cumRain < steps[2].cumRain

\* --- C23: one intensity per design storm ---

\* C23: for the same return period and duration the interpolators of the
\* design-storm table, the storm simulation and the cost-linked sizing
\* return the same intensity.
C23_SameIntensity ==
    /\ idf.drain = idf.storm
    /\ idf.storm = idf.cost

\* --- C24: the rain garden reduction ---

\* the LID state with the rain garden switched off
NoRainGarden(lid) == [lid EXCEPT !.rainGarden = FALSE]

\* the area-weighted average of the surface coefficients of the rendered lot
WeightedAverage ==
    CompositeRaw(dc.out.clampedBuilding, dc.out.pavementArea, dc.out.lawnArea,
                 dc.lotSize, NoRainGarden(dc.lid))

\* C24: with the rain garden on, lidC is the area-weighted average of the
\* surface coefficients times 0.85, then clamped to [0.1, 0.95]; the roof and
\* pavement coefficients are those without the rain garden.
C24_RainGardenReduction ==
    (dc.mounted /\ dc.lotSize > 0 /\ dc.lid.rainGarden) =>
        /\ dc.out.lidC = Max(100000, Min(FMul(WeightedAverage, 850000), 950000))
        /\ RoofC(dc.lid) = RoofC(NoRainGarden(dc.lid))
        /\ PaveC(dc.lid) = PaveC(NoRainGarden(dc.lid))

\* a lot whose average exceeds 0.95: the reduction applied before the clamp
\* leaves lidC below 0.85 x 0.95 < baseC = 0.95
C24_Witness ==
    /\ dc.mounted
    /\ dc.lotSize > 0
    /\ dc.lid.rainGarden
    /\ WeightedAverage > 950000
    /\ dc.out.lidC = FMul(WeightedAverage, 850000)
    /\ dc.out.lidC > FMul(950000, 850000)
    /\ dc.out.baseC = 950000

\* --- C25: cumulative infiltration and capacity within a run ---

\* Ks of the run's soil, as a rate
KsRate == GA_SOILS[soilKey].Ks \div (ONE \div RateOne)

\* C25: a run starts with F = 0.001 mm; no loop iteration decreases F; the
\* capacity of every step exceeds Ks and is not above the capacity of the
\* step before it.
C25_CapacityDecays ==
    /\ []((pc = "loop" /\ s = 0) => cumF = 1000)
    /\ [](body.regime # "none" => body.fp > KsRate)
    /\ [][ s' = s + 1 =>
             /\ cumF' >= cumF
             /\ body.regime # "none" => body'.fp <= body.fp ]_vars

\* a step after which F has grown and whose capacity is strictly below the
\* capacity of the first step
C25_Witness ==
    /\ s > 1
    /\ cumF > 1000 + body.pervInf
    /\ body.pervInf > 0
    /\ body.fp > KsRate
    /\ body.fp < Capacity(GA_SOILS[soilKey], 1000)

\* --- C26: the SCS Type II distribution ---

MaxFracK == 120

\* time fractions from -0.05 to 1.2 in hundredths, and the anchors themselves
TimeFractions ==
    {k * (ONE \div 100) : k \in (0 - 5) .. MaxFracK}
        \cup {SCS_TYPE_II[i][1] : i \in DOMAIN SCS_TYPE_II}

ScsInit ==
    /\ SimIdle
    /\ idf = IdfNone
    /\ pipe = PipeNone
    /\ dc = DcNone
    /\ ca = CaNone
    /\ sv = SvNone
    /\ kirpich = TcNone
    /\ ld = LdNone
    /\ mh = MhNone
    /\ lay = LayNone
    /\ \E f \in TimeFractions : scs = ScsQuery(f)

\* the distribution is read at another time fraction
ScsRead ==
    /\ \E f \in TimeFractions : scs' = ScsQuery(f)
    /\ UNCHANGED <<simVars, idf, pipe, dc, ca, sv, kirpich, ld, mh, lay>>

ScsNext == ScsRead

SpecScs == ScsInit /\ [][ScsNext]_vars

\* on the segment from anchor i to anchor i + 1, the point (scs.tFrac, scs.p)
\* lies on the straight line through the two anchors, to within the rounding
\* of the two products (2 units of 10^-6)
OnSegment(i) ==
    LET t1 == SCS_TYPE_II[i][1]
        p1 == SCS_TYPE_II[i][2]
        t2 == SCS_TYPE_II[i + 1][1]
        p2 == SCS_TYPE_II[i + 1][2]
    IN  Abs(FMul(scs.p - p1, t2 - t1) - FMul(scs.tFrac - t1, p2 - p1)) <= 2

\* C26: the distribution is 0 at every fraction <= 0 and 1 at every fraction
\* >= 1, takes the anchor's value at an anchor, lies on the straight line
\* between the two adjacent anchors around the fraction, and does not
\* decrease when the fraction grows, so the increment from an earlier to a
\* later fraction, and with it a step's rainfall, is never negative.
C26_ScsDistribution ==
    /\ [](/\ scs.tFrac <= 0 => scs.p = 0
          /\ scs.tFrac >= ONE => scs.p = ONE
          /\ \A i \in 1 .. Len(SCS_TYPE_II) - 1 :
                (scs.tFrac >= SCS_TYPE_II[i][1] /\ scs.tFrac <= SCS_TYPE_II[i + 1][1])
                    => OnSegment(i)
          /\ \A i \in DOMAIN SCS_TYPE_II :
                scs.tFrac = SCS_TYPE_II[i][1] => scs.p = SCS_TYPE_II[i][2])
    /\ [][ scs.tFrac <= scs'.tFrac => scs.p <= scs'.p ]_vars

\* a fraction strictly inside the steepest segment, 0.489 to 0.5
C26_Witness ==
    /\ scs.tFrac > 489000
    /\ scs.tFrac < 500000
    /\ scs.p > 357000
    /\ scs.p < 663000

\* --- C27: the loading flag of the search and station-data loaders ---

\* runSearch of usePropertySearch and of PropertyToolsView, fetchData of
\* PrecipitationView, fetchMonthlyData of HydrometricView
Loaders == {"usePropertySearch", "PropertyToolsView", "PrecipitationView", "HydrometricView"}

\* the two runSearch loaders return early on a query of fewer than 2 characters
SearchLoaders == {"usePropertySearch", "PropertyToolsView"}

MaxRequests == 3

\* the loader before its first call: useState(false), abortRef null
LdNew(who) ==
    [loader |-> who, loading |-> FALSE, abortRef |-> 0, req |-> << >>,
     data |-> "initial", error |-> FALSE]

\* abortRef.current?.abort(): the fetch of the request in abortRef, if still
\* pending, will reject with an AbortError
AbortCurrent(req, ref) ==
    [i \in DOMAIN req |-> IF i = ref /\ req[i] = "pending" THEN "aborted" ELSE req[i]]

LoadInit ==
    /\ SimIdle
    /\ idf = IdfNone
    /\ pipe = PipeNone
    /\ dc = DcNone
    /\ ca = CaNone
    /\ sv = SvNone
    /\ kirpich = TcNone
    /\ scs = ScsNone
    /\ mh = MhNone
    /\ lay = LayNone
    /\ \E who \in Loaders : ld = LdNew(who)

\* runSearch called with a query of fewer than 2 characters
ShortQuery ==
    /\ ld.loader \in SearchLoaders
    /\ ld' = [ld EXCEPT !.data = "empty"]
    /\ UNCHANGED <<simVars, idf, pipe, dc, ca, sv, kirpich, scs, mh, lay>>

\* the loader is called: everything up to its first await
LoadCall ==
    /\ Len(ld.req) < MaxRequests
    /\ ld' = [ld EXCEPT !.req = Append(AbortCurrent(ld.req, ld.abortRef), "pending"),
                        !.abortRef = Len(ld.req) + 1,
                        !.loading = TRUE,
                        !.error = FALSE]
    /\ UNCHANGED <<simVars, idf, pipe, dc, ca, sv, kirpich, scs, mh, lay>>

\* a pending request gets its response: the try block, then finally
LoadResolve ==
    /\ \E i \in DOMAIN ld.req :
          /\ ld.req[i] = "pending"
          /\ ld' = [ld EXCEPT !.req[i] = "done", !.data = "loaded", !.loading = FALSE]
    /\ UNCHANGED <<simVars, idf, pipe, dc, ca, sv, kirpich, scs, mh, lay>>

\* a pending request fails (network error or HTTP status): catch, then finally
LoadReject ==
    /\ \E i \in DOMAIN ld.req :
          /\ ld.req[i] = "pending"
          /\ ld' = [ld EXCEPT !.req[i] = "done",
                              !.data = IF ld.loader \in SearchLoaders
                                       THEN "empty" ELSE ld.data,
                              !.error = IF ld.loader \in SearchLoaders
                                        THEN ld.error ELSE TRUE,
                              !.loading = FALSE]
    /\ UNCHANGED <<simVars, idf, pipe, dc, ca, sv, kirpich, scs, mh, lay>>

\* an aborted request rejects with AbortError: catch returns, then finally
LoadAbortError ==
    /\ \E i \in DOMAIN ld.req :
          /\ ld.req[i] = "aborted"
          /\ ld' = [ld EXCEPT !.req[i] = "done", !.loading = FALSE]
    /\ UNCHANGED <<simVars, idf, pipe, dc, ca, sv, kirpich, scs, mh, lay>>

LoadNext == ShortQuery \/ LoadCall \/ LoadResolve \/ LoadReject \/ LoadAbortError

SpecLoad == LoadInit /\ [][LoadNext]_vars

\* C27: the loading flag is true whenever a request that was not aborted is
\* still pending.
C27_LoadingWhilePending ==
    (\E i \in DOMAIN ld.req : ld.req[i] = "pending") => ld.loading

\* --- C28: manholes and the zoom threshold ---

\* zoom levels passed by ManholeLoader: the map opens at zoom 12
Zooms == {12, 13, 15}

MaxManholeRequests == 4

\* loadManholes(bounds, zoom) up to its first await, from view state m
loadManholes(m, zoom) ==
    IF zoom < 13
    THEN [m EXCEPT !.zoom = zoom, !.manholes = 0]
    ELSE [m EXCEPT !.zoom = zoom,
                   !.req = Append(AbortCurrent(m.req, m.abortRef), "pending"),
                   !.abortRef = Len(m.req) + 1,
                   !.manholesLoading = TRUE]

\* the view after mount: useState([]), useState(false), and ManholeLoader's
\* effect has called onMove with the map's zoom; manholes = 0 is the empty
\* list, i > 0 the rows returned for request i
MhInit ==
    /\ SimIdle
    /\ idf = IdfNone
    /\ pipe = PipeNone
    /\ dc = DcNone
    /\ ca = CaNone
    /\ sv = SvNone
    /\ kirpich = TcNone
    /\ scs = ScsNone
    /\ ld = LdNone
    /\ lay = LayNone
    /\ mh = loadManholes([mounted |-> TRUE, zoom |-> 12, manholes |-> 0,
                          manholesLoading |-> FALSE, abortRef |-> 0, req |-> << >>], 12)

\* moveend or zoomend: onMove(map.getBounds(), map.getZoom())
MhMove ==
    /\ \E zoom \in Zooms :
          /\ zoom >= 13 => Len(mh.req) < MaxManholeRequests
          /\ mh' = loadManholes(mh, zoom)
    /\ UNCHANGED <<simVars, idf, pipe, dc, ca, sv, kirpich, scs, ld, lay>>

\* the response of a pending request arrives: its signal is not aborted
MhResolve ==
    /\ \E i \in DOMAIN mh.req :
          /\ mh.req[i] = "pending"
          /\ mh' = [mh EXCEPT !.req[i] = "done", !.manholes = i,
                              !.manholesLoading = FALSE]
    /\ UNCHANGED <<simVars, idf, pipe, dc, ca, sv, kirpich, scs, ld, lay>>

\* a pending request fails: the catch ignores it, the signal is not aborted
MhReject ==
    /\ \E i \in DOMAIN mh.req :
          /\ mh.req[i] = "pending"
          /\ mh' = [mh EXCEPT !.req[i] = "done", !.manholesLoading = FALSE]
    /\ UNCHANGED <<simVars, idf, pipe, dc, ca, sv, kirpich, scs, ld, lay>>

\* an aborted request rejects: the catch ignores it, the signal is aborted
MhAbortError ==
    /\ \E i \in DOMAIN mh.req :
          /\ mh.req[i] = "aborted"
          /\ mh' = [mh EXCEPT !.req[i] = "done"]
    /\ UNCHANGED <<simVars, idf, pipe, dc, ca, sv, kirpich, scs, ld, lay>>

MhNext == MhMove \/ MhResolve \/ MhReject \/ MhAbortError

SpecManholes == MhInit /\ [][MhNext]_vars

\* C28: while the zoom of the last loadManholes call is below 13, the
\* manhole list is empty.
C28_NoManholesBelowZoom13 ==
    (mh.mounted /\ mh.zoom < 13) => mh.manholes = 0

\* --- C29: fetchLayer and the layer's loading flag ---

\* config.source of the layer: ArcGIS layers are fetched by viewport, the
\* others from a fixed endpoint
LayerSources == {"arcgis", "geojson"}

MaxLayerRequests == 3

\* the layer after useState's initialiser; data = 0 is null, data = i the
\* collection fetched by request i; hasBounds is boundsRef.current # null
LayNew(source, enabled) ==
    [mounted |-> TRUE, source |-> source, enabled |-> enabled,
     visible |-> enabled, data |-> 0, loading |-> FALSE, error |-> FALSE,
     abortRef |-> 0, req |-> << >>, hasBounds |-> FALSE, timer |-> FALSE]

\* mutant: the request in flight is not cancelled
fetchLayer_NoAbort(m, boundsArg) ==
    IF m.source = "arcgis" /\ ~boundsArg /\ ~m.hasBounds
    THEN [m EXCEPT !.req = Append(m.req, "unsent"),
                   !.abortRef = Len(m.req) + 1,
                   !.loading = FALSE, !.error = FALSE]
    ELSE [m EXCEPT !.req = Append(m.req, "pending"),
                   !.abortRef = Len(m.req) + 1,
                   !.loading = TRUE, !.error = FALSE]

\* fetchLayer(config, bounds?, zoom?) up to its first await, from state m;
\* boundsArg tells whether bounds were passed
fetchLayer(m, boundsArg) ==
    IF m.source = "arcgis" /\ ~boundsArg /\ ~m.hasBounds
    THEN [m EXCEPT !.req = Append(AbortCurrent(m.req, m.abortRef), "unsent"),
                   !.abortRef = Len(m.req) + 1,
                   !.loading = FALSE, !.error = FALSE]
    ELSE [m EXCEPT !.req = Append(AbortCurrent(m.req, m.abortRef), "pending"),
                   !.abortRef = Len(m.req) + 1,
                   !.loading = TRUE, !.error = FALSE]

LayInit ==
    /\ SimIdle
    /\ idf = IdfNone
    /\ pipe = PipeNone
    /\ dc = DcNone
    /\ ca = CaNone
    /\ sv = SvNone
    /\ kirpich = TcNone
    /\ scs = ScsNone
    /\ ld = LdNone
    /\ mh = MhNone
    /\ \E source \in LayerSources, enabled \in BOOLEAN : lay = LayNew(source, enabled)

toggleLayer ==
    /\ \E m \in {[lay EXCEPT !.visible = ~lay.visible]} :
          IF ~lay.visible /\ lay.data = 0 /\ ~lay.loading
          THEN /\ Len(lay.req) < MaxLayerRequests
               /\ lay' = fetchLayer(m, FALSE)
          ELSE lay' = m
    /\ UNCHANGED <<simVars, idf, pipe, dc, ca, sv, kirpich, scs, ld, mh>>

loadVisibleLayers ==
    /\ lay.enabled
    /\ Len(lay.req) < MaxLayerRequests
    /\ lay' = fetchLayer(lay, FALSE)
    /\ UNCHANGED <<simVars, idf, pipe, dc, ca, sv, kirpich, scs, ld, mh>>

\* boundsRef and zoomRef are set and the 400 ms timer is restarted
onMapMove ==
    /\ lay' = [lay EXCEPT !.hasBounds = TRUE, !.timer = TRUE]
    /\ UNCHANGED <<simVars, idf, pipe, dc, ca, sv, kirpich, scs, ld, mh>>

\* the debounce timer fires
MapMoveTimeout ==
    /\ lay.timer
    /\ \E m \in {[lay EXCEPT !.timer = FALSE]} :
          IF lay.visible /\ lay.source = "arcgis"
          THEN /\ Len(lay.req) < MaxLayerRequests
               /\ lay' = fetchLayer(m, TRUE)
          ELSE lay' = m
    /\ UNCHANGED <<simVars, idf, pipe, dc, ca, sv, kirpich, scs, ld, mh>>

\* the response of a pending request arrives and is parsed
LayResolve ==
    /\ \E i \in DOMAIN lay.req :
          /\ lay.req[i] = "pending"
          /\ lay' = [lay EXCEPT !.req[i] = "done", !.data = i, !.loading = FALSE]
    /\ UNCHANGED <<simVars, idf, pipe, dc, ca, sv, kirpich, scs, ld, mh>>

\* a pending request fails with an error other than AbortError
LayReject ==
    /\ \E i \in DOMAIN lay.req :
          /\ lay.req[i] = "pending"
          /\ lay' = [lay EXCEPT !.req[i] = "done", !.loading = FALSE, !.error = TRUE]
    /\ UNCHANGED <<simVars, idf, pipe, dc, ca, sv, kirpich, scs, ld, mh>>

\* an aborted request rejects with AbortError: the catch returns
LayAbortError ==
    /\ \E i \in DOMAIN lay.req :
          /\ lay.req[i] = "aborted"
          /\ lay' = [lay EXCEPT !.req[i] = "cancelled"]
    /\ UNCHANGED <<simVars, idf, pipe, dc, ca, sv, kirpich, scs, ld, mh>>

LaySettle == LayResolve \/ LayReject \/ LayAbortError

LayNext ==
    \/ toggleLayer \/ loadVisibleLayers \/ onMapMove \/ MapMoveTimeout
    \/ LayResolve \/ LayReject \/ LayAbortError

SpecLayers == LayInit /\ [][LayNext]_vars

\* every issued request eventually resolves, fails or rejects as aborted
SpecLayersFair == SpecLayers /\ WF_vars(LaySettle)

\* C29: a layer that is loading eventually is not; while it is loading the
\* request of the latest fetchLayer call is pending; the settling of an
\* aborted request changes neither data, error nor loading; and data is only
\* ever written by the request of the latest call.
C29_LoadingSettles ==
    /\ lay.loading ~> ~lay.loading
    /\ [](lay.loading => (lay.abortRef > 0 /\ lay.req[lay.abortRef] = "pending"))
    /\ [][ /\ (\E i \in DOMAIN lay.req : lay.req[i] = "aborted" /\ lay'.req[i] = "cancelled")
              => (lay'.data = lay.data /\ lay'.error = lay.error
                      /\ lay'.loading = lay.loading)
           /\ lay'.data # lay.data => lay'.data = lay.abortRef ]_vars

\* request 1 was superseded and cancelled, and the layer holds the data of
\* request 2 and is not loading
C29_Witness ==
    /\ lay.mounted
    /\ Len(lay.req) >= 2
    /\ lay.req[1] = "cancelled"
    /\ lay.data = 2
    /\ ~lay.loading

\* --- C30: LID toggles leave the baseline outputs alone ---

\* a step of the mounted calculator that changes the LID options
LidChanges == dc.mounted /\ dc'.mounted /\ dc'.lid # dc.lid

\* C30: a step that changes the LID options leaves the baseline composite C,
\* the time of concentration, the areas and, for every return period, the
\* intensity, Q_base, pipe_base and vol_base as they were.
C30_BaselineUntouched ==
    [][ LidChanges =>
          /\ dc'.out.baseC = dc.out.baseC
          /\ dc'.out.tc = dc.out.tc
          /\ dc'.out.clampedBuilding = dc.out.clampedBuilding
          /\ dc'.out.pavementArea = dc.out.pavementArea
          /\ dc'.out.lawnArea = dc.out.lawnArea
          /\ dc'.pavementPct = dc.pavementPct
          /\ \A j \in DOMAIN IDF_RETURN_PERIODS :
               /\ dc'.out.results[j].i = dc.out.results[j].i
               /\ dc'.out.results[j].Q_base = dc.out.results[j].Q_base
               /\ dc'.out.results[j].pipe_base = dc.out.results[j].pipe_base
               /\ dc'.out.results[j].vol_base = dc.out.results[j].vol_base ]_vars

\* three options switched on one after the other, and the LID-adjusted
\* outputs have moved away from the baseline ones
C30_Witness ==
    /\ dc.mounted /\ ~dc.out.empty
    /\ dc.lid = [NoLid EXCEPT !.greenRoof = TRUE, !.rainGarden = TRUE,
                              !.bioswale = TRUE]
    /\ dc.out.lidC < dc.out.baseC
    /\ \A j \in DOMAIN IDF_RETURN_PERIODS :
          /\ dc.out.results[j].Q_lid < dc.out.results[j].Q_base
          /\ dc.out.results[j].vol_lid < dc.out.results[j].vol_base
    /\ \E j \in DOMAIN IDF_RETURN_PERIODS :
          dc.out.results[j].pipe_lid < dc.out.results[j].pipe_base

====
